---- MODULE Spec2Model ----
(***************************************************************************)
(* The dma-buf buffer sharing framework of drivers/base/dma-buf.c as a     *)
(* state machine: one shared buffer object, the file that carries its      *)
(* reference count, the descriptor table, the cached kernel mapping and    *)
(* the vm area handed to dma_buf_mmap.                                     *)
(*                                                                         *)
(* Pointers are integers: 0 is NULL, a value in -MAX_ERRNO..-1 is an       *)
(* ERR_PTR(), a positive value is the address of an object.                *)
(***************************************************************************)
EXTENDS Integers, Sequences, FiniteSets, TLC

----------------------------------------------------------------------------
\* Program constants

EINVAL == 22
ENOMEM == 12
EBADF == 9
EMFILE == 24
EOVERFLOW == 75
EFAULT == 14
EAGAIN == 11
EPERM == 1
EBUSY == 16
POLLIN == 1
POLLOUT == 4
POLLERR == 8
F_RDLCK == 0
F_WRLCK == 1
F_UNLCK == 2
DMA_BUF_ACCESS_R == 1
DMA_BUF_ACCESS_W == 2
MAX_ERRNO == 4095
PAGE_SHIFT == 12
BITS_PER_LONG == 32

PAGE_SIZE == 2 ^ PAGE_SHIFT

\* Bounds of the model
MaxFds == 2          \* descriptor slots of the process (RLIMIT_NOFILE)
MaxRef == 2          \* largest f_count a dma_buf_get may produce
MaxVmap == 2         \* largest vmapping_counter a dma_buf_vmap may produce
MaxAttach == 2       \* attachment records that can be allocated at a time

NULL == 0
ERR_PTR(e) == e
IS_ERR(p) == p < 0 /\ p >= -MAX_ERRNO
IS_ERR_OR_NULL(p) == p = NULL \/ IS_ERR(p)

\* Addresses of the objects of the model
DMABUF == 1          \* the struct dma_buf allocated by dma_buf_export
PRIV == 1            \* the exporter's private data
F_DMABUF == 1        \* the anon file of the buffer
F_OTHER == 2         \* a file that is not a dma-buf file
Files == {F_DMABUF, F_OTHER}
VAddrs == {1, 2}     \* addresses the exporter's vmap may return
Devs == {1, 2}       \* struct device of two importers
AttachIds == 1 .. MaxAttach      \* addresses of struct dma_buf_attachment
Procs == {1, 2, 3}   \* tasks that use the buffer through its file
CtxIds == {1, 2}     \* addresses of struct dmabuf_sync (fence contexts)

\* struct dma_buf_ops: a table is the set of the hooks that are not NULL
Mandatory == {"map_dma_buf", "unmap_dma_buf", "release", "kmap_atomic", "kmap", "mmap"}
Optional == {"attach", "detach", "begin_cpu_access", "end_cpu_access",
             "kunmap_atomic", "kunmap", "vmap", "vunmap"}
AllHooks == Mandatory \cup Optional
NULL_OPS == {"NULL"}     \* the ops argument being a NULL pointer

\* file_operations tables
DMA_BUF_FOPS == "dma_buf_fops"
OTHER_FOPS == "other_fops"

----------------------------------------------------------------------------
\* State

\* The voting lock (arch/arm/common/bL_vlock.S). The layout of the structure
\* is that of asm/bL_vlock.h: the owner byte at offset 0, one voting byte for
\* each CPU from offset 4, read a word at a time by the waiting loop.
VLOCK_OWNER_NONE == 0
VLOCK_VOTING_OFFSET == 4
VLOCK_VOTING_SIZE == 4
CPUs == 0 .. 2           \* the CPUs of the cluster that contend for the lock
MaxCalls == 4            \* calls of vlock_trylock, by all CPUs together

CpuIdle == [pc |-> "idle", r0 |-> 0, r1 |-> 0, r2 |-> 0, holds |-> FALSE]
VlockFree == [owner |-> VLOCK_OWNER_NONE,
              voting |-> [c \in CPUs |-> 0],
              event |-> [c \in CPUs |-> FALSE],
              cpu |-> [c \in CPUs |-> CpuIdle],
              wins |-> 0,
              calls |-> 0]

\* The touchscreen (drivers/input/touchscreen/fts_ts.c). irq_depth is the
\* disable depth of the interrupt line: 0 when it is enabled; unbalanced is
\* set by an enable_irq of an enabled line. Each task that calls into the
\* driver has a position and the outcome of its last call.
FtsTasks == {1, 2, 3}
FtsIdle == [st |-> "idle", did |-> "none"]

\* fts_irq_enable(info, true) and, in a build with USE_OPEN_CLOSE, the
\* fts_stop_device at the end of fts_probe
fts_probe(use_open_close) ==
    [use_open_close |-> use_open_close,
     irq_enabled |-> TRUE,
     touch_stopped |-> use_open_close,
     irq_depth |-> IF use_open_close THEN 1 ELSE 0,
     unbalanced |-> FALSE,
     device_mutex |-> 0,
     task |-> [t \in FtsTasks |-> FtsIdle]]

VARIABLES
    dmabuf,     \* the struct dma_buf: state none/live/freed and its fields
    robj,       \* dmabuf->sync, the reservation object of the buffer
    robj2,      \* the reservation object of a second exported buffer
    files,      \* struct file of every file: alive, f_count, f_op, private_data
    fdtable,    \* descriptor -> struct file pointer (NULL: unused)
    krefs,      \* references to the buffer held by in-kernel callers
    vma,        \* the vm_area_struct given to dma_buf_mmap
    called,     \* exporter hooks and teardown steps run by the last call, in order
    nrelease,   \* times ops->release has run
    hook_seen,  \* what the hook run by the last call received (the vma of ops->mmap and
                \* the f_count then) and what it returned
    attachs,    \* struct dma_buf_attachment of every address: live, dev, dmabuf
    pc,         \* what each task is doing: idle, or asleep in a lock or a poll
    holders,    \* access windows held: the task, the access type, how it was taken
    ctxs,       \* struct dmabuf_sync of every address: live, owner, type, bound, locked
    udf,        \* struct dma_buf_fence in each task's memory: type, ctx
    last,       \* the last call: op, args, ops argument, return value
    oops,       \* a BUG_ON fired or a bad pointer was dereferenced
    vlock,      \* the voting lock of bL_vlock.S: its bytes, and where each CPU is
    fts         \* the touchscreen of fts_ts.c: touch_stopped, the IRQ, device_mutex

vars == <<dmabuf, robj, robj2, files, fdtable, krefs, vma, called, nrelease, hook_seen,
          attachs, pc, holders, ctxs, udf, last, oops, vlock, fts>>

Fds == 0 .. (MaxFds - 1)

\* kzalloc'ed memory
ZeroBuf == [state |-> "none", priv |-> NULL, ops |-> {}, size |-> 0, file |-> NULL,
            vmap_ptr |-> NULL, vmapping_counter |-> 0, attachments |-> {},
            lock |-> 0]
ZeroRobj == [valid |-> FALSE, locked |-> FALSE, accessed_type |-> 0,
             poll_event |-> FALSE, polled |-> FALSE, waiters |-> {}]
NoFile == [alive |-> FALSE, f_count |-> 0, f_op |-> OTHER_FOPS, private_data |-> NULL]
NoVma == [valid |-> FALSE, vm_file |-> NULL, vm_pgoff |-> <<0, 0>>, vm_start |-> 0,
          vm_end |-> 0]

NoSeen == [vm_file |-> NULL, vm_pgoff |-> <<0, 0>>, f_count |-> 0, hook_ret |-> 0,
           attach |-> NULL, in_set |-> FALSE, range |-> <<>>]
NoAttach == [live |-> FALSE, dev |-> NULL, dmabuf |-> NULL]
NoAttachs == [a \in AttachIds |-> NoAttach]
Idle == [st |-> "idle", type |-> 0]
AllIdle == [p \in Procs |-> Idle]
NoCtx == [live |-> FALSE, owner |-> 0, type |-> 0, bound |-> FALSE, locked |-> FALSE]
NoCtxs == [c \in CtxIds |-> NoCtx]
NoFence == [type |-> 0, ctx |-> 0]
NoFences == [p \in Procs |-> NoFence]

\* The kernel state a call works on, threaded through the steps of a handler
St == [dmabuf |-> dmabuf, robj |-> robj, robj2 |-> robj2, files |-> files, fdtable |-> fdtable,
       krefs |-> krefs, vma |-> vma, called |-> <<>>, nrelease |-> nrelease,
       hook_seen |-> NoSeen, attachs |-> attachs, pc |-> pc, holders |-> holders,
       ctxs |-> ctxs, udf |-> udf, oops |-> FALSE]

Commit(S, op, args, ops, ret) ==
    /\ dmabuf' = S.dmabuf
    /\ robj' = S.robj
    /\ robj2' = S.robj2
    /\ files' = S.files
    /\ fdtable' = S.fdtable
    /\ krefs' = S.krefs
    /\ vma' = S.vma
    /\ called' = S.called
    /\ nrelease' = S.nrelease
    /\ hook_seen' = S.hook_seen
    /\ attachs' = S.attachs
    /\ pc' = S.pc
    /\ holders' = S.holders
    /\ ctxs' = S.ctxs
    /\ udf' = S.udf
    /\ oops' = S.oops
    /\ last' = [op |-> op, args |-> args, ops |-> ops, ret |-> ret]
    /\ UNCHANGED <<vlock, fts>>

Init ==
    /\ dmabuf = ZeroBuf
    /\ robj = ZeroRobj
    /\ robj2 = ZeroRobj
    /\ files = [f \in Files |->
                  IF f = F_OTHER
                  THEN [alive |-> TRUE, f_count |-> 1, f_op |-> OTHER_FOPS,
                        private_data |-> NULL]
                  ELSE NoFile]
    /\ fdtable = [fd \in Fds |-> IF fd = 0 THEN F_OTHER ELSE NULL]
    /\ krefs = 0
    /\ vma = NoVma
    /\ called = <<>>
    /\ nrelease = 0
    /\ hook_seen = NoSeen
    /\ attachs = NoAttachs
    /\ pc = AllIdle
    /\ holders = {}
    /\ ctxs = NoCtxs
    /\ udf = NoFences
    /\ last = [op |-> "init", args |-> <<>>, ops |-> {}, ret |-> 0]
    /\ oops = FALSE
    /\ vlock = VlockFree
    /\ fts = fts_probe(TRUE)

----------------------------------------------------------------------------
\* dmabuf_sync_reservation_init / _fini (linux/dmabuf-sync.h)

dmabuf_sync_reservation_init(S, syncOk) ==
    [S EXCEPT !.robj = [ZeroRobj EXCEPT !.valid = syncOk]]

dmabuf_sync_reservation_fini(S) ==
    [S EXCEPT !.robj = ZeroRobj, !.called = Append(@, "reservation_fini")]

----------------------------------------------------------------------------
\* dma_buf_export

\* anon_inode_getfile("dmabuf", &dma_buf_fops, dmabuf, flags): a new file with
\* one reference, or an ERR_PTR
anon_inode_getfile(S, fileOk) ==
    IF fileOk
    THEN [S EXCEPT !.files[F_DMABUF] =
              [alive |-> TRUE, f_count |-> 1, f_op |-> DMA_BUF_FOPS,
               private_data |-> DMABUF]]
    ELSE S

\* Mutant: the test of ops->kmap is forgotten
ExportRejects_NoKmapTest(priv, ops) ==
    \/ priv = NULL
    \/ ops = NULL_OPS
    \/ "map_dma_buf" \notin ops
    \/ "unmap_dma_buf" \notin ops
    \/ "release" \notin ops
    \/ "kmap_atomic" \notin ops
    \/ "mmap" \notin ops

ExportRejects(priv, ops) ==
    \/ priv = NULL
    \/ ops = NULL_OPS
    \/ "map_dma_buf" \notin ops
    \/ "unmap_dma_buf" \notin ops
    \/ "release" \notin ops
    \/ "kmap_atomic" \notin ops
    \/ "kmap" \notin ops
    \/ "mmap" \notin ops

\* Mutant: dmabuf->size is never assigned
NewDmabuf_NoSize(priv, ops, size) ==
    [ZeroBuf EXCEPT !.state = "live", !.priv = priv, !.ops = ops]

\* kzalloc and the three assignments that follow it
NewDmabuf(priv, ops, size) ==
    [ZeroBuf EXCEPT !.state = "live", !.priv = priv, !.ops = ops, !.size = size]

dma_buf_export(priv, ops, size, allocOk, fileOk, syncOk) ==
    /\ ~oops
    /\ dmabuf.state = "none"
    /\ IF ExportRejects(priv, ops)
       THEN Commit(St, "export", <<priv, size>>, ops, ERR_PTR(-EINVAL))
       ELSE IF ~allocOk
       THEN Commit(St, "export", <<priv, size>>, ops, ERR_PTR(-ENOMEM))
       ELSE LET S1 == [St EXCEPT !.dmabuf = NewDmabuf(priv, ops, size)]
                S2 == anon_inode_getfile(S1, fileOk)
                S3 == dmabuf_sync_reservation_init(S2, syncOk)
                S4 == [S3 EXCEPT !.dmabuf.file =
                                      IF fileOk THEN F_DMABUF ELSE ERR_PTR(-ENOMEM),
                                 !.dmabuf.attachments = {},
                                 !.krefs = 1]
            IN  Commit(S4, "export", <<priv, size>>, ops, DMABUF)

\* Arguments of dma_buf_export
BigSize == (2 * PAGE_SIZE) + (PAGE_SIZE - 1)   \* two pages and a part of a third
Sizes == {PAGE_SIZE, BigSize}
OptionalChoices == {{}, {"vmap"}, Optional}
SomeOps == {NULL_OPS} \cup {Mandatory \cup o : o \in OptionalChoices}
                      \cup {AllHooks \ {h} : h \in Mandatory}
EveryOps == {NULL_OPS} \cup SUBSET AllHooks

Export ==
    \E priv \in {NULL, PRIV}, ops \in SomeOps, size \in {BigSize},
       allocOk \in BOOLEAN, fileOk \in BOOLEAN, syncOk \in BOOLEAN :
        dma_buf_export(priv, ops, size, allocOk, fileOk, syncOk)

\* dma_buf_export applied once to arguments drawn by InitExport
ExportEvery ==
    /\ last.op = "export_args"
    /\ \E allocOk \in BOOLEAN, fileOk \in BOOLEAN, syncOk \in BOOLEAN :
        dma_buf_export(last.args[1], last.ops, last.args[2], allocOk, fileOk, syncOk)

InitExport ==
    /\ dmabuf = ZeroBuf
    /\ robj = ZeroRobj
    /\ robj2 = ZeroRobj
    /\ files = [f \in Files |-> NoFile]
    /\ fdtable = [fd \in Fds |-> NULL]
    /\ krefs = 0
    /\ vma = NoVma
    /\ called = <<>>
    /\ nrelease = 0
    /\ hook_seen = NoSeen
    /\ attachs = NoAttachs
    /\ pc = AllIdle
    /\ holders = {}
    /\ ctxs = NoCtxs
    /\ udf = NoFences
    /\ \E priv \in {NULL, PRIV}, ops \in EveryOps, size \in Sizes :
         last = [op |-> "export_args", args |-> <<priv, size>>, ops |-> ops, ret |-> 0]
    /\ oops = FALSE
    /\ vlock = VlockFree
    /\ fts = fts_probe(TRUE)

----------------------------------------------------------------------------
\* struct file reference counting: fget, get_file, fput, and dma_buf_release,
\* the release operation of dma_buf_fops that the last fput runs

ValidFile(S, f) == f \in Files /\ S.files[f].alive

is_dma_buf_file(S, f) == S.files[f].f_op = DMA_BUF_FOPS

\* Mutant: ops->release runs before the vmapping_counter assertion
dma_buf_release_HookBeforeCheck(S) ==
    LET S1 == [S EXCEPT !.called = Append(@, "release"),
                        !.nrelease = @ + 1]
    IN  IF S.dmabuf.vmapping_counter # 0
        THEN [S1 EXCEPT !.oops = TRUE]
        ELSE LET S2 == dmabuf_sync_reservation_fini(S1)
             IN  [S2 EXCEPT !.dmabuf.state = "freed", !.called = Append(@, "kfree")]

\* Mutant: the teardown detaches and frees what is still attached
dma_buf_release_DetachesAll(S) ==
    IF S.dmabuf.vmapping_counter # 0
    THEN [S EXCEPT !.oops = TRUE]
    ELSE LET S0 == [S EXCEPT !.attachs = [a \in DOMAIN @ |->
                                            IF a \in S.dmabuf.attachments
                                            THEN [live |-> FALSE, dev |-> NULL,
                                                  dmabuf |-> NULL]
                                            ELSE @[a]],
                             !.dmabuf.attachments = {}]
             S1 == [S0 EXCEPT !.called = Append(@, "release"),
                              !.nrelease = @ + 1]
             S2 == dmabuf_sync_reservation_fini(S1)
         IN  [S2 EXCEPT !.dmabuf.state = "freed", !.called = Append(@, "kfree")]

\* Mutant: the buffer is freed without calling ops->release
dma_buf_release_NoHook(S) ==
    IF S.dmabuf.vmapping_counter # 0
    THEN [S EXCEPT !.oops = TRUE]
    ELSE LET S2 == dmabuf_sync_reservation_fini(S)
         IN  [S2 EXCEPT !.dmabuf.state = "freed", !.called = Append(@, "kfree")]

dma_buf_release(S) ==
    IF S.dmabuf.vmapping_counter # 0
    THEN [S EXCEPT !.oops = TRUE]
    ELSE LET S1 == [S EXCEPT !.called = Append(@, "release"),
                             !.nrelease = @ + 1]
             S2 == dmabuf_sync_reservation_fini(S1)
         IN  [S2 EXCEPT !.dmabuf.state = "freed", !.called = Append(@, "kfree")]

get_file(S, f) ==
    IF ~ValidFile(S, f)
    THEN [S EXCEPT !.oops = TRUE]
    ELSE [S EXCEPT !.files[f].f_count = @ + 1]

fput(S, f) ==
    IF ~ValidFile(S, f)
    THEN [S EXCEPT !.oops = TRUE]
    ELSE IF S.files[f].f_count > 1
    THEN [S EXCEPT !.files[f].f_count = @ - 1]
    ELSE LET S1 == [S EXCEPT !.files[f].f_count = 0]
             S2 == IF is_dma_buf_file(S1, f) THEN dma_buf_release(S1) ELSE S1
         IN  IF S2.oops THEN S2 ELSE [S2 EXCEPT !.files[f] = NoFile]

\* fget(fd): the file of the descriptor, NULL when the descriptor is not open
fget_file(S, fd) == IF fd \in Fds THEN S.fdtable[fd] ELSE NULL

----------------------------------------------------------------------------
\* dma_buf_fd

\* get_unused_fd_flags: the lowest unused descriptor, or -EMFILE
get_unused_fd_flags(S) ==
    IF \E fd \in Fds : S.fdtable[fd] = NULL
    THEN CHOOSE fd \in Fds : /\ S.fdtable[fd] = NULL
                             /\ \A g \in Fds : S.fdtable[g] = NULL => fd <= g
    ELSE -EMFILE

\* Mutant: installing the file takes a reference of its own
fd_install_TakesReference(S, fd, file) ==
    IF ~(file \in Files /\ S.files[file].alive)
    THEN [S EXCEPT !.oops = TRUE]
    ELSE [S EXCEPT !.fdtable[fd] = file, !.files[file].f_count = @ + 1]

\* fd_install(fd, file): the descriptor takes over the reference of the caller
fd_install(S, fd, file) == [S EXCEPT !.fdtable[fd] = file]

dma_buf_fd ==
    /\ ~oops
    /\ krefs > 0
    /\ IF dmabuf.file = NULL
       THEN Commit(St, "fd", <<>>, {}, -EINVAL)
       ELSE LET error == get_unused_fd_flags(St)
            IN  IF error < 0
                THEN Commit(St, "fd", <<>>, {}, error)
                ELSE LET S1 == fd_install(St, error, dmabuf.file)
                     IN  Commit([S1 EXCEPT !.krefs = @ - 1], "fd", <<>>, {}, error)

----------------------------------------------------------------------------
\* dma_buf_get, dma_buf_put, and close(2) of a descriptor

\* Mutant: the reference taken by fget is not dropped when the file is no dma-buf
dma_buf_get_NoFput(fd) ==
    /\ ~oops
    /\ LET file == fget_file(St, fd)
       IN  IF file = NULL
           THEN Commit(St, "get", <<fd>>, {}, ERR_PTR(-EBADF))
           ELSE IF ~ValidFile(St, file)
           THEN Commit([St EXCEPT !.oops = TRUE], "get", <<fd>>, {}, NULL)
           ELSE LET S1 == get_file(St, file)
                IN  IF ~is_dma_buf_file(S1, file)
                    THEN Commit(S1, "get", <<fd>>, {}, ERR_PTR(-EINVAL))
                    ELSE /\ S1.files[file].f_count <= MaxRef
                         /\ Commit([S1 EXCEPT !.krefs = @ + 1], "get", <<fd>>, {},
                                   S1.files[file].private_data)

dma_buf_get(fd) ==
    /\ ~oops
    /\ LET file == fget_file(St, fd)
       IN  IF file = NULL
           THEN Commit(St, "get", <<fd>>, {}, ERR_PTR(-EBADF))
           ELSE IF ~ValidFile(St, file)
           THEN Commit([St EXCEPT !.oops = TRUE], "get", <<fd>>, {}, NULL)
           ELSE LET S1 == get_file(St, file)
                IN  IF ~is_dma_buf_file(S1, file)
                    THEN Commit(fput(S1, file), "get", <<fd>>, {}, ERR_PTR(-EINVAL))
                    ELSE /\ S1.files[file].f_count <= MaxRef
                         /\ Commit([S1 EXCEPT !.krefs = @ + 1], "get", <<fd>>, {},
                                   S1.files[file].private_data)

dma_buf_put ==
    /\ ~oops
    /\ krefs > 0
    /\ IF dmabuf.file = NULL
       THEN Commit(St, "put", <<>>, {}, 0)
       ELSE LET S1 == fput(St, dmabuf.file)
            IN  Commit([S1 EXCEPT !.krefs = @ - 1], "put", <<>>, {}, 0)

sys_close(fd) ==
    /\ ~oops
    /\ fdtable[fd] # NULL
    /\ LET S1 == fput(St, fdtable[fd])
       IN  Commit([S1 EXCEPT !.fdtable[fd] = NULL], "close", <<fd>>, {}, 0)

----------------------------------------------------------------------------
\* dma_buf_vmap, dma_buf_vunmap

\* Mutant: the cached mapping is not used, ops->vmap is called every time
dma_buf_vmap_NoCache(hookret) ==
    /\ ~oops
    /\ krefs > 0
    /\ dmabuf.vmapping_counter < MaxVmap
    /\ IF "vmap" \notin dmabuf.ops
       THEN Commit(St, "vmap", <<>>, {}, NULL)
       ELSE LET S1 == [St EXCEPT !.called = Append(@, "vmap"),
                                 !.hook_seen.hook_ret = hookret]
            IN  IF IS_ERR_OR_NULL(hookret)
                THEN Commit(S1, "vmap", <<>>, {}, hookret)
                ELSE Commit([S1 EXCEPT !.dmabuf.vmap_ptr = hookret,
                                       !.dmabuf.vmapping_counter = @ + 1],
                            "vmap", <<>>, {}, hookret)

\* hookret: what ops->vmap returns if it is called
dma_buf_vmap(hookret) ==
    /\ ~oops
    /\ krefs > 0
    /\ dmabuf.vmapping_counter < MaxVmap
    /\ IF "vmap" \notin dmabuf.ops
       THEN Commit(St, "vmap", <<>>, {}, NULL)
       ELSE IF dmabuf.vmapping_counter # 0
       THEN IF dmabuf.vmap_ptr = NULL
            THEN Commit([St EXCEPT !.dmabuf.vmapping_counter = @ + 1, !.oops = TRUE],
                        "vmap", <<>>, {}, NULL)
            ELSE Commit([St EXCEPT !.dmabuf.vmapping_counter = @ + 1],
                        "vmap", <<>>, {}, dmabuf.vmap_ptr)
       ELSE IF dmabuf.vmap_ptr # NULL
       THEN Commit([St EXCEPT !.oops = TRUE], "vmap", <<>>, {}, NULL)
       ELSE LET S1 == [St EXCEPT !.called = Append(@, "vmap"),
                                 !.hook_seen.hook_ret = hookret]
            IN  IF IS_ERR_OR_NULL(hookret)
                THEN Commit(S1, "vmap", <<>>, {}, hookret)
                ELSE Commit([S1 EXCEPT !.dmabuf.vmap_ptr = hookret,
                                       !.dmabuf.vmapping_counter = 1],
                            "vmap", <<>>, {}, hookret)

\* Mutant: vaddr is not compared with the cached pointer
dma_buf_vunmap_NoPtrTest(vaddr) ==
    /\ ~oops
    /\ krefs > 0
    /\ IF \/ dmabuf.vmap_ptr = NULL
          \/ dmabuf.vmapping_counter = 0
       THEN Commit([St EXCEPT !.oops = TRUE], "vunmap", <<vaddr>>, {}, 0)
       ELSE LET S1 == [St EXCEPT !.dmabuf.vmapping_counter = @ - 1]
            IN  IF S1.dmabuf.vmapping_counter = 0
                THEN LET S2 == IF "vunmap" \in dmabuf.ops
                               THEN [S1 EXCEPT !.called = Append(@, "vunmap")]
                               ELSE S1
                     IN  Commit([S2 EXCEPT !.dmabuf.vmap_ptr = NULL],
                                "vunmap", <<vaddr>>, {}, 0)
                ELSE Commit(S1, "vunmap", <<vaddr>>, {}, 0)

dma_buf_vunmap(vaddr) ==
    /\ ~oops
    /\ krefs > 0
    /\ IF \/ dmabuf.vmap_ptr = NULL
          \/ dmabuf.vmapping_counter = 0
          \/ dmabuf.vmap_ptr # vaddr
       THEN Commit([St EXCEPT !.oops = TRUE], "vunmap", <<vaddr>>, {}, 0)
       ELSE LET S1 == [St EXCEPT !.dmabuf.vmapping_counter = @ - 1]
            IN  IF S1.dmabuf.vmapping_counter = 0
                THEN LET S2 == IF "vunmap" \in dmabuf.ops
                               THEN [S1 EXCEPT !.called = Append(@, "vunmap")]
                               ELSE S1
                     IN  Commit([S2 EXCEPT !.dmabuf.vmap_ptr = NULL],
                                "vunmap", <<vaddr>>, {}, 0)
                ELSE Commit(S1, "vunmap", <<vaddr>>, {}, 0)

----------------------------------------------------------------------------
\* dma_buf_mmap, and the vm area it is given

\* unsigned long arithmetic. A value is <<high half, low half>>, each half of
\* BITS_PER_LONG / 2 bits, so that the sum wraps at 2^BITS_PER_LONG as in C.
HALF_BITS == BITS_PER_LONG \div 2
HALF == 2 ^ HALF_BITS
ULong(n) == <<n \div HALF, n % HALF>>
ULONG_MAX == <<HALF - 1, HALF - 1>>
ULongAdd(a, b) ==
    LET lo == a[2] + b[2]
        hi == a[1] + b[1] + (lo \div HALF)
    IN  <<hi % HALF, lo % HALF>>
ULongLess(a, b) == a[1] < b[1] \/ (a[1] = b[1] /\ a[2] < b[2])
ShiftRight(a, n) ==
    <<a[1] \div (2 ^ n), ((a[1] % (2 ^ n)) * (2 ^ (HALF_BITS - n))) + (a[2] \div (2 ^ n))>>

\* (vma->vm_end - vma->vm_start) >> PAGE_SHIFT
VmaPages(v) == ShiftRight(ULong(v.vm_end - v.vm_start), PAGE_SHIFT)

\* The mm sets up a vm area for a file (or none) before a driver's mmap runs
VMA_BASE == 16 * PAGE_SIZE

mmap_region(file, pages) ==
    /\ ~oops
    /\ ~vma.valid
    /\ file # NULL => files[file].alive
    /\ LET S1 == IF file # NULL THEN get_file(St, file) ELSE St
       IN  Commit([S1 EXCEPT !.vma = [valid |-> TRUE, vm_file |-> file,
                                      vm_pgoff |-> ULong(0),
                                      vm_start |-> VMA_BASE,
                                      vm_end |-> VMA_BASE + pages * PAGE_SIZE]],
                  "mmap_region", <<file, pages>>, {}, 0)

\* Unmapping the area drops its file reference
munmap ==
    /\ ~oops
    /\ vma.valid
    /\ LET S1 == IF vma.vm_file # NULL THEN fput(St, vma.vm_file) ELSE St
       IN  Commit([S1 EXCEPT !.vma = NoVma], "munmap", <<>>, {}, 0)

\* Mutant: the test for the wrapped sum is missing
MmapCheck_NoOverflowTest(pgoff, v, size) ==
    IF ULongLess(ShiftRight(ULong(size), PAGE_SHIFT), ULongAdd(pgoff, VmaPages(v)))
    THEN -EINVAL
    ELSE 0

\* The two range checks of dma_buf_mmap: 0, or the error to return
MmapCheck(pgoff, v, size) ==
    IF ULongLess(ULongAdd(pgoff, VmaPages(v)), pgoff)
    THEN -EOVERFLOW
    ELSE IF ULongLess(ShiftRight(ULong(size), PAGE_SHIFT), ULongAdd(pgoff, VmaPages(v)))
    THEN -EINVAL
    ELSE 0

\* Mutant: the reference for the vm area is not taken
MmapReadjust_NoGetFile(S, pgoff) ==
    LET S1 == IF S.vma.vm_file # NULL THEN fput(S, S.vma.vm_file) ELSE S
        S2 == [S1 EXCEPT !.vma.vm_file = S.dmabuf.file]
    IN  [S2 EXCEPT !.vma.vm_pgoff = pgoff]

\* "readjust the vma": drop the old file, point at the buffer's file with a
\* reference of its own, set the offset
MmapReadjust(S, pgoff) ==
    LET S1 == IF S.vma.vm_file # NULL THEN fput(S, S.vma.vm_file) ELSE S
        S2 == [S1 EXCEPT !.vma.vm_file = S.dmabuf.file]
        S3 == get_file(S2, S2.vma.vm_file)
    IN  [S3 EXCEPT !.vma.vm_pgoff = pgoff, !.oops = S1.oops \/ S3.oops]

\* hookret: what ops->mmap returns if it is called
dma_buf_mmap(pgoff, hookret) ==
    /\ ~oops
    /\ krefs > 0
    /\ IF ~vma.valid
       THEN Commit(St, "mmap", pgoff, {}, -EINVAL)
       ELSE IF MmapCheck(pgoff, vma, dmabuf.size) # 0
       THEN Commit(St, "mmap", pgoff, {}, MmapCheck(pgoff, vma, dmabuf.size))
       ELSE LET S4 == MmapReadjust(St, pgoff)
                S5 == [S4 EXCEPT !.called = Append(@, "mmap"),
                                 !.hook_seen = [vm_file |-> S4.vma.vm_file,
                                                vm_pgoff |-> S4.vma.vm_pgoff,
                                                f_count |-> IF ValidFile(S4, dmabuf.file)
                                                            THEN S4.files[dmabuf.file].f_count
                                                            ELSE 0,
                                                hook_ret |-> hookret]]
            IN  IF S4.oops
                THEN Commit(S4, "mmap", pgoff, {}, 0)
                ELSE Commit(S5, "mmap", pgoff, {}, hookret)

\* Arguments
FdArgs == 0 .. MaxFds
VunmapArgs == {NULL} \cup VAddrs
VmapRets == {NULL, ERR_PTR(-ENOMEM)} \cup VAddrs
MmapRets == {0, -ENOMEM}
VmaPageArgs == {1, 2}
PgoffArgs == {ULong(0), ULong(1), <<HALF - 1, HALF - 2>>, ULONG_MAX}

ToHandle == dma_buf_fd
FromHandle == \E fd \in FdArgs : dma_buf_get(fd)
Release == dma_buf_put
Close == \E fd \in Fds : sys_close(fd)
Vmap == \E hookret \in VmapRets : dma_buf_vmap(hookret)
Vunmap == \E vaddr \in VunmapArgs : dma_buf_vunmap(vaddr)
MapRegion == \E file \in {NULL, F_OTHER}, pages \in VmaPageArgs : mmap_region(file, pages)
Unmap == munmap
Mmap == \E pgoff \in PgoffArgs, hookret \in MmapRets : dma_buf_mmap(pgoff, hookret)

----------------------------------------------------------------------------
\* dma_buf_attach, dma_buf_detach, dma_buf_map_attachment

\* kzalloc(sizeof(struct dma_buf_attachment)): a record that is not in use, or
\* NULL
AllocAttach(S, allocOk) ==
    IF allocOk /\ \E a \in AttachIds : ~S.attachs[a].live
    THEN CHOOSE a \in AttachIds : /\ ~S.attachs[a].live
                                  /\ \A b \in AttachIds : ~S.attachs[b].live => a <= b
    ELSE NULL

\* Mutant: the record is put on the list before ops->attach is asked, and stays
\* there when it refuses
dma_buf_attach_InsertsFirst(buf, dev, allocOk, hookret) ==
    /\ ~oops
    /\ krefs > 0
    /\ IF buf = NULL \/ dev = NULL
       THEN Commit(St, "attach", <<buf, dev>>, {}, ERR_PTR(-EINVAL))
       ELSE LET a == AllocAttach(St, allocOk)
            IN  IF a = NULL
                THEN Commit(St, "attach", <<buf, dev>>, {}, ERR_PTR(-ENOMEM))
                ELSE LET S1 == [St EXCEPT !.attachs[a] =
                                    [live |-> TRUE, dev |-> dev, dmabuf |-> buf],
                                          !.dmabuf.attachments = @ \cup {a}]
                         S2 == [S1 EXCEPT !.called = Append(@, "attach"),
                                          !.hook_seen.attach = a,
                                          !.hook_seen.hook_ret = hookret]
                     IN  IF "attach" \in dmabuf.ops
                         THEN IF hookret # 0
                              THEN Commit([S2 EXCEPT !.attachs[a] = NoAttach,
                                                     !.called = Append(@, "kfree_attach")],
                                          "attach", <<buf, dev>>, {}, ERR_PTR(hookret))
                              ELSE Commit(S2, "attach", <<buf, dev>>, {}, a)
                         ELSE Commit(S1, "attach", <<buf, dev>>, {}, a)

\* hookret: what ops->attach returns if it is called. hook_seen.in_set tells
\* whether the record was on the list when the hook ran.
dma_buf_attach(buf, dev, allocOk, hookret) ==
    /\ ~oops
    /\ krefs > 0
    /\ IF buf = NULL \/ dev = NULL
       THEN Commit(St, "attach", <<buf, dev>>, {}, ERR_PTR(-EINVAL))
       ELSE LET a == AllocAttach(St, allocOk)
            IN  IF a = NULL
                THEN Commit(St, "attach", <<buf, dev>>, {}, ERR_PTR(-ENOMEM))
                ELSE LET S1 == [St EXCEPT !.attachs[a] =
                                    [live |-> TRUE, dev |-> dev, dmabuf |-> buf]]
                         S2 == [S1 EXCEPT !.called = Append(@, "attach"),
                                          !.hook_seen.attach = a,
                                          !.hook_seen.in_set = a \in S1.dmabuf.attachments,
                                          !.hook_seen.hook_ret = hookret]
                         S3 == IF "attach" \in dmabuf.ops THEN S2 ELSE S1
                     IN  IF "attach" \in dmabuf.ops /\ hookret # 0
                         THEN Commit([S2 EXCEPT !.attachs[a] = NoAttach,
                                                !.called = Append(@, "kfree_attach")],
                                     "attach", <<buf, dev>>, {}, ERR_PTR(hookret))
                         ELSE Commit([S3 EXCEPT !.dmabuf.attachments = @ \cup {a}],
                                     "attach", <<buf, dev>>, {}, a)

\* Mutant: no test of the arguments, a null one is dereferenced
dma_buf_detach_NoNullTest(buf, a) ==
    /\ ~oops
    /\ krefs > 0
    /\ IF buf = NULL \/ a = NULL
       THEN Commit([St EXCEPT !.oops = TRUE], "detach", <<buf, a>>, {}, 0)
       ELSE LET S1 == [St EXCEPT !.dmabuf.attachments = @ \ {a},
                                 !.called = Append(@, "list_del")]
                S2 == IF "detach" \in dmabuf.ops
                      THEN [S1 EXCEPT !.called = Append(@, "detach"),
                                      !.hook_seen.attach = a,
                                      !.hook_seen.in_set = a \in S1.dmabuf.attachments]
                      ELSE S1
            IN  Commit([S2 EXCEPT !.attachs[a] = NoAttach,
                                  !.called = Append(@, "kfree_attach")],
                       "detach", <<buf, a>>, {}, 0)

\* Mutant: list_del is given the whole list, every record is unlinked
dma_buf_detach_UnlinksAll(buf, a) ==
    /\ ~oops
    /\ krefs > 0
    /\ IF buf = NULL \/ a = NULL
       THEN Commit(St, "detach", <<buf, a>>, {}, 0)
       ELSE LET S1 == [St EXCEPT !.dmabuf.attachments = {},
                                 !.called = Append(@, "list_del")]
                S2 == IF "detach" \in dmabuf.ops
                      THEN [S1 EXCEPT !.called = Append(@, "detach"),
                                      !.hook_seen.attach = a,
                                      !.hook_seen.in_set = a \in S1.dmabuf.attachments]
                      ELSE S1
            IN  Commit([S2 EXCEPT !.attachs[a] = NoAttach,
                                  !.called = Append(@, "kfree_attach")],
                       "detach", <<buf, a>>, {}, 0)

dma_buf_detach(buf, a) ==
    /\ ~oops
    /\ krefs > 0
    /\ IF buf = NULL \/ a = NULL
       THEN Commit(St, "detach", <<buf, a>>, {}, 0)
       ELSE LET S1 == [St EXCEPT !.dmabuf.attachments = @ \ {a},
                                 !.called = Append(@, "list_del")]
                S2 == IF "detach" \in dmabuf.ops
                      THEN [S1 EXCEPT !.called = Append(@, "detach"),
                                      !.hook_seen.attach = a,
                                      !.hook_seen.in_set = a \in S1.dmabuf.attachments]
                      ELSE S1
            IN  Commit([S2 EXCEPT !.attachs[a] = NoAttach,
                                  !.called = Append(@, "kfree_attach")],
                       "detach", <<buf, a>>, {}, 0)

\* hookret: the sg_table pointer ops->map_dma_buf returns
dma_buf_map_attachment(a, hookret) ==
    /\ ~oops
    /\ krefs > 0
    /\ IF a = NULL \/ attachs[a].dmabuf = NULL
       THEN Commit(St, "map_attachment", <<a>>, {}, ERR_PTR(-EINVAL))
       ELSE Commit([St EXCEPT !.called = Append(@, "map_dma_buf"),
                              !.hook_seen.attach = a,
                              !.hook_seen.in_set = a \in dmabuf.attachments,
                              !.hook_seen.hook_ret = hookret],
                   "map_attachment", <<a>>, {}, hookret)

\* Mutant: the status of ops->begin_cpu_access is dropped, 0 is returned
dma_buf_begin_cpu_access_DropsStatus(buf, start, len, direction, hookret) ==
    /\ ~oops
    /\ krefs > 0
    /\ IF buf = NULL
       THEN Commit(St, "begin_cpu_access", <<buf, start, len, direction>>, {}, -EINVAL)
       ELSE IF "begin_cpu_access" \in dmabuf.ops
       THEN Commit([St EXCEPT !.called = Append(@, "begin_cpu_access"),
                              !.hook_seen.range = <<start, len, direction>>,
                              !.hook_seen.hook_ret = hookret],
                   "begin_cpu_access", <<buf, start, len, direction>>, {}, 0)
       ELSE Commit(St, "begin_cpu_access", <<buf, start, len, direction>>, {}, 0)

\* hookret: what ops->begin_cpu_access returns if it is called
dma_buf_begin_cpu_access(buf, start, len, direction, hookret) ==
    /\ ~oops
    /\ krefs > 0
    /\ IF buf = NULL
       THEN Commit(St, "begin_cpu_access", <<buf, start, len, direction>>, {}, -EINVAL)
       ELSE IF "begin_cpu_access" \in dmabuf.ops
       THEN Commit([St EXCEPT !.called = Append(@, "begin_cpu_access"),
                              !.hook_seen.range = <<start, len, direction>>,
                              !.hook_seen.hook_ret = hookret],
                   "begin_cpu_access", <<buf, start, len, direction>>, {}, hookret)
       ELSE Commit(St, "begin_cpu_access", <<buf, start, len, direction>>, {}, 0)

\* A null buffer is dereferenced after the WARN_ON
dma_buf_end_cpu_access(buf, start, len, direction) ==
    /\ ~oops
    /\ krefs > 0
    /\ IF buf = NULL
       THEN Commit([St EXCEPT !.oops = TRUE], "end_cpu_access",
                   <<buf, start, len, direction>>, {}, 0)
       ELSE IF "end_cpu_access" \in dmabuf.ops
       THEN Commit([St EXCEPT !.called = Append(@, "end_cpu_access"),
                              !.hook_seen.range = <<start, len, direction>>],
                   "end_cpu_access", <<buf, start, len, direction>>, {}, 0)
       ELSE Commit(St, "end_cpu_access", <<buf, start, len, direction>>, {}, 0)

\* Arguments: detach and map are given NULL or an attachment of the buffer
AttachHookRets == {0, -ENOMEM, -EINVAL}
SG_TABLE == 1
MapRets == {NULL, ERR_PTR(-ENOMEM), SG_TABLE}
LiveAttachArgs == {NULL} \cup {a \in AttachIds : attachs[a].live}

Attach ==
    \E buf \in {NULL, DMABUF}, dev \in {NULL} \cup Devs, allocOk \in BOOLEAN,
       hookret \in AttachHookRets :
        dma_buf_attach(buf, dev, allocOk, hookret)
Detach == \E buf \in {NULL, DMABUF}, a \in LiveAttachArgs : dma_buf_detach(buf, a)
MapAttachment == \E a \in LiveAttachArgs, hookret \in MapRets : dma_buf_map_attachment(a, hookret)

\* start, len and direction of a CPU access; what ops->begin_cpu_access returns
CpuArgs == {<<0, 1, 0>>, <<1, 2, 1>>}
CpuHookRets == {0, -ENOMEM}

BeginCpuAccess ==
    \E buf \in {NULL, DMABUF}, a \in CpuArgs, hookret \in CpuHookRets :
        dma_buf_begin_cpu_access(buf, a[1], a[2], a[3], hookret)
EndCpuAccess ==
    \E buf \in {NULL, DMABUF}, a \in CpuArgs :
        dma_buf_end_cpu_access(buf, a[1], a[2], a[3])

\* A buffer just exported, with or without the attach and detach hooks
AttachOps == {Mandatory, Mandatory \cup {"attach", "detach"}, AllHooks}
InitAttach ==
    /\ \E ops \in AttachOps :
         dmabuf = [NewDmabuf(PRIV, ops, BigSize) EXCEPT !.file = F_DMABUF]
    /\ robj = [ZeroRobj EXCEPT !.valid = TRUE]
    /\ robj2 = ZeroRobj
    /\ files = [f \in Files |->
                  IF f = F_OTHER
                  THEN [alive |-> TRUE, f_count |-> 1, f_op |-> OTHER_FOPS,
                        private_data |-> NULL]
                  ELSE [alive |-> TRUE, f_count |-> 1, f_op |-> DMA_BUF_FOPS,
                        private_data |-> DMABUF]]
    /\ fdtable = [fd \in Fds |-> IF fd = 0 THEN F_OTHER ELSE NULL]
    /\ krefs = 1
    /\ vma = NoVma
    /\ called = <<>>
    /\ nrelease = 0
    /\ hook_seen = NoSeen
    /\ attachs = NoAttachs
    /\ pc = AllIdle
    /\ holders = {}
    /\ ctxs = NoCtxs
    /\ udf = NoFences
    /\ last = [op |-> "export", args |-> <<PRIV, BigSize>>, ops |-> dmabuf.ops,
               ret |-> DMABUF]
    /\ oops = FALSE
    /\ vlock = VlockFree
    /\ fts = fts_probe(TRUE)

NextAttach ==
    \/ Attach
    \/ Detach
    \/ MapAttachment
    \/ BeginCpuAccess
    \/ EndCpuAccess
    \/ Vmap
    \/ Vunmap
    \/ ToHandle
    \/ FromHandle
    \/ Release

----------------------------------------------------------------------------
\* The reservation of a buffer and its file operations: dma_buf_lock,
\* dma_buf_poll, dma_buf_ioctl

\* a & b on the flag words of struct file_lock
RECURSIVE BitAnd(_, _)
BitAnd(a, b) ==
    IF a = 0 \/ b = 0
    THEN 0
    ELSE (a % 2) * (b % 2) + 2 * BitAnd(a \div 2, b \div 2)

\* Lock on an unlocked reservation: Unlocked -> LockedRead or LockedWrite
Acquire(S, type) == [S EXCEPT !.robj.locked = TRUE, !.robj.accessed_type = type]

\* Lock(buffer, accessType, wait). A caller that has to wait is put on the
\* waiter queue and its call does not return (blocked).
dmabuf_sync_single_lock(S, p, type, wait) ==
    IF ~S.robj.valid
    THEN [S |-> S, ret |-> -EPERM, blocked |-> FALSE]
    ELSE IF ~S.robj.locked
    THEN [S |-> Acquire(S, type), ret |-> 0, blocked |-> FALSE]
    ELSE IF ~wait
    THEN [S |-> S, ret |-> -EAGAIN, blocked |-> FALSE]
    ELSE [S |-> [S EXCEPT !.robj.waiters = @ \cup {p},
                          !.pc[p] = [st |-> "lock_wait", type |-> type]],
          ret |-> 0, blocked |-> TRUE]

\* Unlock(buffer): Unlocked, the poll edge set, every waiter woken: a task
\* asleep in a lock is runnable again, a task asleep in a poll is back in its
\* caller. On an unlocked reservation nothing is changed.
dmabuf_sync_single_unlock(S) ==
    IF S.robj.valid /\ S.robj.locked
    THEN [S EXCEPT !.robj.locked = FALSE,
                   !.robj.accessed_type = 0,
                   !.robj.poll_event = TRUE,
                   !.robj.waiters = {},
                   !.pc = [p \in Procs |->
                             IF p \in S.robj.waiters
                             THEN IF S.pc[p].st = "lock_wait"
                                  THEN [S.pc[p] EXCEPT !.st = "lock_woken"]
                                  ELSE Idle
                             ELSE S.pc[p]]]
    ELSE S

\* Mutant: every lock request waits, FL_SLEEP or not
dma_buf_lock_AlwaysWaits(S, p, file, fl_type, sleep) ==
    IF ~is_dma_buf_file(S, file)
    THEN [S |-> S, ret |-> -EINVAL, blocked |-> FALSE]
    ELSE IF BitAnd(fl_type, F_UNLCK) = F_UNLCK
    THEN [S |-> dmabuf_sync_single_unlock(S), ret |-> 0, blocked |-> FALSE]
    ELSE IF BitAnd(fl_type, F_WRLCK) = F_WRLCK
    THEN dmabuf_sync_single_lock(S, p, DMA_BUF_ACCESS_W, TRUE)
    ELSE dmabuf_sync_single_lock(S, p, DMA_BUF_ACCESS_R, TRUE)

\* Mutant: the result of dmabuf_sync_single_lock is dropped, 0 is returned
dma_buf_lock_IgnoresResult(S, p, file, fl_type, sleep) ==
    IF ~is_dma_buf_file(S, file)
    THEN [S |-> S, ret |-> -EINVAL, blocked |-> FALSE]
    ELSE IF BitAnd(fl_type, F_UNLCK) = F_UNLCK
    THEN [S |-> dmabuf_sync_single_unlock(S), ret |-> 0, blocked |-> FALSE]
    ELSE LET type == IF BitAnd(fl_type, F_WRLCK) = F_WRLCK
                     THEN DMA_BUF_ACCESS_W ELSE DMA_BUF_ACCESS_R
             R == dmabuf_sync_single_lock(S, p, type, sleep = 1)
         IN  IF R.blocked THEN R ELSE [R EXCEPT !.ret = 0]

\* Mutant: FL_SLEEP is not looked at, no request waits
dma_buf_lock_NeverWaits(S, p, file, fl_type, sleep) ==
    IF ~is_dma_buf_file(S, file)
    THEN [S |-> S, ret |-> -EINVAL, blocked |-> FALSE]
    ELSE IF BitAnd(fl_type, F_UNLCK) = F_UNLCK
    THEN [S |-> dmabuf_sync_single_unlock(S), ret |-> 0, blocked |-> FALSE]
    ELSE IF BitAnd(fl_type, F_WRLCK) = F_WRLCK
    THEN dmabuf_sync_single_lock(S, p, DMA_BUF_ACCESS_W, FALSE)
    ELSE dmabuf_sync_single_lock(S, p, DMA_BUF_ACCESS_R, FALSE)

\* Mutant: F_UNLCK returns 0 without unlocking
dma_buf_lock_NoUnlock(S, p, file, fl_type, sleep) ==
    IF ~is_dma_buf_file(S, file)
    THEN [S |-> S, ret |-> -EINVAL, blocked |-> FALSE]
    ELSE IF BitAnd(fl_type, F_UNLCK) = F_UNLCK
    THEN [S |-> S, ret |-> 0, blocked |-> FALSE]
    ELSE IF BitAnd(fl_type, F_WRLCK) = F_WRLCK
    THEN dmabuf_sync_single_lock(S, p, DMA_BUF_ACCESS_W, sleep = 1)
    ELSE dmabuf_sync_single_lock(S, p, DMA_BUF_ACCESS_R, sleep = 1)

\* Mutant: a write lock request asks for read access and a read lock request
\* for write access
dma_buf_lock_SwapsTypes(S, p, file, fl_type, sleep) ==
    IF ~is_dma_buf_file(S, file)
    THEN [S |-> S, ret |-> -EINVAL, blocked |-> FALSE]
    ELSE IF BitAnd(fl_type, F_UNLCK) = F_UNLCK
    THEN [S |-> dmabuf_sync_single_unlock(S), ret |-> 0, blocked |-> FALSE]
    ELSE IF BitAnd(fl_type, F_WRLCK) = F_WRLCK
    THEN dmabuf_sync_single_lock(S, p, DMA_BUF_ACCESS_R, sleep = 1)
    ELSE dmabuf_sync_single_lock(S, p, DMA_BUF_ACCESS_W, sleep = 1)

\* sleep: fl->fl_flags & FL_SLEEP, 1 or 0. The last test is true of every
\* fl_type, F_RDLCK being 0, so the -EINVAL of the source is never reached.
dma_buf_lock(S, p, file, fl_type, sleep) ==
    IF ~is_dma_buf_file(S, file)
    THEN [S |-> S, ret |-> -EINVAL, blocked |-> FALSE]
    ELSE IF BitAnd(fl_type, F_UNLCK) = F_UNLCK
    THEN [S |-> dmabuf_sync_single_unlock(S), ret |-> 0, blocked |-> FALSE]
    ELSE IF BitAnd(fl_type, F_WRLCK) = F_WRLCK
    THEN dmabuf_sync_single_lock(S, p, DMA_BUF_ACCESS_W, sleep = 1)
    ELSE IF BitAnd(fl_type, F_RDLCK) = F_RDLCK
    THEN dmabuf_sync_single_lock(S, p, DMA_BUF_ACCESS_R, sleep = 1)
    ELSE [S |-> S, ret |-> -EINVAL, blocked |-> FALSE]

\* poll_wait(filp, &robj->poll_wait, poll): the caller is put on the wait queue
poll_wait(S, p) == [S EXCEPT !.robj.waiters = @ \cup {p}]

\* Mutant: the lock state is tested before the poll edge
dma_buf_poll_LockedFirst(S, p, file) ==
    IF ~is_dma_buf_file(S, file)
    THEN [S |-> S, ret |-> POLLERR]
    ELSE IF S.files[file].private_data = NULL \/ ~S.robj.valid
    THEN [S |-> S, ret |-> POLLERR]
    ELSE LET S1 == [S EXCEPT !.robj.polled = TRUE]
         IN  IF ~S1.robj.locked
             THEN [S |-> S1, ret |-> POLLERR]
             ELSE IF S1.robj.poll_event
             THEN [S |-> [S1 EXCEPT !.robj.poll_event = FALSE], ret |-> POLLIN + POLLOUT]
             ELSE [S |-> poll_wait(S1, p), ret |-> 0]

\* Mutant: the poll edge is reported and left set
dma_buf_poll_KeepsEvent(S, p, file) ==
    IF ~is_dma_buf_file(S, file)
    THEN [S |-> S, ret |-> POLLERR]
    ELSE IF S.files[file].private_data = NULL \/ ~S.robj.valid
    THEN [S |-> S, ret |-> POLLERR]
    ELSE LET S1 == [S EXCEPT !.robj.polled = TRUE]
         IN  IF S1.robj.poll_event
             THEN [S |-> S1, ret |-> POLLIN + POLLOUT]
             ELSE IF ~S1.robj.locked
             THEN [S |-> S1, ret |-> POLLERR]
             ELSE [S |-> poll_wait(S1, p), ret |-> 0]

\* Mutant: a poll of a locked buffer reports it ready instead of waiting
dma_buf_poll_ReadyWhenLocked(S, p, file) ==
    IF ~is_dma_buf_file(S, file)
    THEN [S |-> S, ret |-> POLLERR]
    ELSE IF S.files[file].private_data = NULL \/ ~S.robj.valid
    THEN [S |-> S, ret |-> POLLERR]
    ELSE LET S1 == [S EXCEPT !.robj.polled = TRUE]
         IN  IF S1.robj.poll_event \/ S1.robj.locked
             THEN [S |-> [S1 EXCEPT !.robj.poll_event = FALSE], ret |-> POLLIN + POLLOUT]
             ELSE [S |-> S1, ret |-> POLLERR]

dma_buf_poll(S, p, file) ==
    IF ~is_dma_buf_file(S, file)
    THEN [S |-> S, ret |-> POLLERR]
    ELSE IF S.files[file].private_data = NULL \/ ~S.robj.valid
    THEN [S |-> S, ret |-> POLLERR]
    ELSE LET S1 == [S EXCEPT !.robj.polled = TRUE]
         IN  IF S1.robj.poll_event
             THEN [S |-> [S1 EXCEPT !.robj.poll_event = FALSE], ret |-> POLLIN + POLLOUT]
             ELSE IF ~S1.robj.locked
             THEN [S |-> S1, ret |-> POLLERR]
             ELSE [S |-> poll_wait(S1, p), ret |-> 0]

\* dmabuf_sync_init("3D", NULL, NULL): a new context of the caller, or an ERR_PTR
dmabuf_sync_init(S, p, ok) ==
    LET free == {c \in CtxIds : ~S.ctxs[c].live}
    IN  IF ok /\ free # {}
        THEN LET c == CHOOSE c \in free : \A d \in free : c <= d
             IN  [S |-> [S EXCEPT !.ctxs[c] = [NoCtx EXCEPT !.live = TRUE, !.owner = p]],
                  ret |-> c]
        ELSE [S |-> S, ret |-> ERR_PTR(-ENOMEM)]

\* dmabuf_sync_get(sync, dmabuf, type): the buffer is bound to the context
dmabuf_sync_get(S, c, type, ok) ==
    IF ok
    THEN [S |-> [S EXCEPT !.ctxs[c].bound = TRUE, !.ctxs[c].type = type], ret |-> 0]
    ELSE [S |-> S, ret |-> -EINVAL]

\* dmabuf_sync_lock(sync): Lock of the bound buffer with the type of the
\* context; it waits while the buffer is locked (blocked)
dmabuf_sync_lock(S, c, ok) ==
    IF ~ok
    THEN [S |-> S, ret |-> -EAGAIN, blocked |-> FALSE]
    ELSE IF S.robj.locked
    THEN [S |-> S, ret |-> 0, blocked |-> TRUE]
    ELSE [S |-> [Acquire(S, S.ctxs[c].type) EXCEPT !.ctxs[c].locked = TRUE],
          ret |-> 0, blocked |-> FALSE]

\* dmabuf_sync_unlock(sync): Unlock through the context; a ctx that is not a
\* live context is a bad pointer
dmabuf_sync_unlock(S, c, ok) ==
    IF c \notin CtxIds \/ ~S.ctxs[c].live
    THEN [S |-> [S EXCEPT !.oops = TRUE], ret |-> -EINVAL]
    ELSE IF ok /\ S.ctxs[c].locked
    THEN [S |-> [dmabuf_sync_single_unlock(S) EXCEPT
                    !.ctxs[c].locked = FALSE,
                    !.called = Append(@, "dmabuf_sync_unlock")],
          ret |-> 0]
    ELSE [S |-> [S EXCEPT !.called = Append(@, "dmabuf_sync_unlock")], ret |-> -EINVAL]

dmabuf_sync_put(S, c) ==
    [S EXCEPT !.ctxs[c].bound = FALSE, !.called = Append(@, "dmabuf_sync_put")]

dmabuf_sync_fini(S, c) ==
    [S EXCEPT !.ctxs[c] = NoCtx, !.called = Append(@, "dmabuf_sync_fini")]

\* fault: the one step of the call that fails, if any. garbage: the value of
\* the local ret when it is returned without having been assigned.
Faults == {"none", "copy_from_user", "copy_to_user", "sync_init", "sync_get",
           "sync_lock", "sync_unlock"}
Garbage == {0, 1, -ENOMEM}

dma_buf_get_fence(S, p, df, fault, garbage) ==
    IF df.ctx # 0
    THEN [S |-> S, ret |-> -EBUSY, df |-> df, blocked |-> FALSE]
    ELSE LET I == dmabuf_sync_init(S, p, fault # "sync_init")
         IN  IF IS_ERR(I.ret)
             THEN [S |-> I.S, ret |-> garbage, df |-> [df EXCEPT !.ctx = 0],
                   blocked |-> FALSE]
             ELSE LET G == dmabuf_sync_get(I.S, I.ret, df.type, fault # "sync_get")
                  IN  IF G.ret < 0
                      THEN [S |-> dmabuf_sync_fini(G.S, I.ret), ret |-> G.ret,
                            df |-> [df EXCEPT !.ctx = 0], blocked |-> FALSE]
                      ELSE LET L == dmabuf_sync_lock(G.S, I.ret, fault # "sync_lock")
                           IN  IF L.blocked
                               THEN [S |-> L.S, ret |-> 0, df |-> df, blocked |-> TRUE]
                               ELSE IF L.ret < 0
                               THEN [S |-> dmabuf_sync_fini(dmabuf_sync_put(L.S, I.ret),
                                                            I.ret),
                                     ret |-> L.ret, df |-> [df EXCEPT !.ctx = 0],
                                     blocked |-> FALSE]
                               ELSE [S |-> L.S, ret |-> 0,
                                     df |-> [df EXCEPT !.ctx = I.ret],
                                     blocked |-> FALSE]

\* Mutant: the context is torn down and ctx cleared although the unlock failed
dma_buf_put_fence_IgnoresUnlockError(S, p, df, fault) ==
    IF df.ctx = 0
    THEN [S |-> S, ret |-> -EFAULT, df |-> df]
    ELSE LET U == dmabuf_sync_unlock(S, df.ctx, fault # "sync_unlock")
         IN  IF U.S.oops
             THEN [S |-> U.S, ret |-> U.ret, df |-> df]
             ELSE [S |-> dmabuf_sync_fini(dmabuf_sync_put(U.S, df.ctx), df.ctx),
                   ret |-> U.ret, df |-> [df EXCEPT !.ctx = 0]]

dma_buf_put_fence(S, p, df, fault) ==
    IF df.ctx = 0
    THEN [S |-> S, ret |-> -EFAULT, df |-> df]
    ELSE LET U == dmabuf_sync_unlock(S, df.ctx, fault # "sync_unlock")
         IN  IF U.ret # 0
             THEN [S |-> U.S, ret |-> U.ret, df |-> df]
             ELSE [S |-> dmabuf_sync_fini(dmabuf_sync_put(U.S, df.ctx), df.ctx),
                   ret |-> 0, df |-> [df EXCEPT !.ctx = 0]]

\* df: the struct dma_buf_fence at arg, which copy_from_user reads; what
\* copy_to_user writes there is kept in udf[p]
dma_buf_ioctl(S, p, file, cmd, df, fault, garbage) ==
    IF ~is_dma_buf_file(S, file)
    THEN [S |-> S, ret |-> -EINVAL, blocked |-> FALSE]
    ELSE IF S.files[file].private_data = NULL
    THEN [S |-> S, ret |-> -EFAULT, blocked |-> FALSE]
    ELSE IF cmd = "DMABUF_IOCTL_GET_INFO"
    THEN IF fault \in {"copy_from_user", "copy_to_user"}
         THEN [S |-> S, ret |-> -EFAULT, blocked |-> FALSE]
         ELSE [S |-> S, ret |-> 0, blocked |-> FALSE]
    ELSE IF cmd = "DMABUF_IOCTL_GET_FENCE"
    THEN IF ~S.robj.valid
         THEN [S |-> S, ret |-> -EPERM, blocked |-> FALSE]
         ELSE IF fault = "copy_from_user"
         THEN [S |-> S, ret |-> -EFAULT, blocked |-> FALSE]
         ELSE LET R == dma_buf_get_fence(S, p, df, fault, garbage)
              IN  IF R.blocked \/ R.ret < 0
                  THEN [S |-> R.S, ret |-> R.ret, blocked |-> R.blocked]
                  ELSE IF fault = "copy_to_user"
                  THEN [S |-> R.S, ret |-> -EFAULT, blocked |-> FALSE]
                  ELSE [S |-> [R.S EXCEPT !.udf[p] = R.df], ret |-> R.ret,
                        blocked |-> FALSE]
    ELSE IF cmd = "DMABUF_IOCTL_PUT_FENCE"
    THEN IF ~S.robj.valid
         THEN [S |-> S, ret |-> -EPERM, blocked |-> FALSE]
         ELSE IF fault = "copy_from_user"
         THEN [S |-> S, ret |-> -EFAULT, blocked |-> FALSE]
         ELSE LET R == dma_buf_put_fence(S, p, df, fault)
              IN  IF R.ret < 0
                  THEN [S |-> R.S, ret |-> R.ret, blocked |-> FALSE]
                  ELSE IF fault = "copy_to_user"
                  THEN [S |-> R.S, ret |-> -EFAULT, blocked |-> FALSE]
                  ELSE [S |-> [R.S EXCEPT !.udf[p] = R.df], ret |-> R.ret,
                        blocked |-> FALSE]
    ELSE [S |-> S, ret |-> -EINVAL, blocked |-> FALSE]

\* Arguments of the file operations. The kernel calls them through f_op, on
\* a file of the buffer.
SyncFiles == {F_DMABUF}
FlTypes == {F_RDLCK, F_WRLCK, F_UNLCK, 4}
AccessTypes == {DMA_BUF_ACCESS_R, DMA_BUF_ACCESS_W}
Cmds == {"DMABUF_IOCTL_GET_INFO", "DMABUF_IOCTL_GET_FENCE", "DMABUF_IOCTL_PUT_FENCE",
         "other"}
FenceProcs == {1, 2}     \* the tasks that use fences

\* The steps of each command that can fail
CmdFaults(cmd) ==
    IF cmd = "DMABUF_IOCTL_GET_FENCE"
    THEN Faults \ {"sync_unlock"}
    ELSE IF cmd = "DMABUF_IOCTL_PUT_FENCE"
    THEN {"none", "copy_from_user", "copy_to_user", "sync_unlock"}
    ELSE IF cmd = "DMABUF_IOCTL_GET_INFO"
    THEN {"none", "copy_from_user", "copy_to_user"}
    ELSE {"none"}

\* The access type a lock request asks for
WantedType(fl_type) == IF fl_type = F_WRLCK THEN DMA_BUF_ACCESS_W ELSE DMA_BUF_ACCESS_R

\* The windows that are left when the fence contexts of S are what they are
FenceHolders(S) == {h \in S.holders : h.ctx = 0 \/ S.ctxs[h.ctx].locked}

\* fcntl(fd, F_SETLK) for sleep = 0 and fcntl(fd, F_SETLKW) for sleep = 1, by
\* an idle task. A locked buffer is unlocked by the task that locked it.
SetLk(p, sleep) ==
    \E file \in SyncFiles, fl_type \in FlTypes :
        /\ ~oops
        /\ pc[p].st = "idle"
        /\ ValidFile(St, file)
        /\ (fl_type = F_UNLCK /\ robj.locked) =>
               [p |-> p, type |-> robj.accessed_type, ctx |-> 0] \in holders
        /\ LET R == dma_buf_lock(St, p, file, fl_type, sleep)
               H == IF R.blocked \/ R.ret # 0
                    THEN holders
                    ELSE IF fl_type = F_UNLCK
                    THEN {h \in holders : ~(h.p = p /\ h.ctx = 0)}
                    ELSE holders \cup {[p |-> p, type |-> WantedType(fl_type), ctx |-> 0]}
           IN  Commit([R.S EXCEPT !.holders = H],
                      IF R.blocked THEN "flock_block" ELSE "flock",
                      <<p, file, fl_type, sleep>>, {}, R.ret)

FLock(p) == SetLk(p, 0)
FLockWait(p) == SetLk(p, 1)

\* A woken task finds the buffer unlocked: its lock call returns 0
LockAcquire(p) ==
    /\ ~oops
    /\ pc[p].st = "lock_woken"
    /\ ~robj.locked
    /\ Commit([Acquire(St, pc[p].type) EXCEPT
                  !.pc[p] = Idle,
                  !.holders = @ \cup {[p |-> p, type |-> pc[p].type, ctx |-> 0]}],
              "flock_return", <<p, pc[p].type>>, {}, 0)

\* A woken task finds the buffer locked again: it goes back to sleep
LockRequeue(p) ==
    /\ ~oops
    /\ pc[p].st = "lock_woken"
    /\ robj.locked
    /\ Commit([St EXCEPT !.pc[p].st = "lock_wait", !.robj.waiters = @ \cup {p}],
              "flock_requeue", <<p, pc[p].type>>, {}, 0)

\* poll() by an idle task: on 0 the task sleeps in the poll core until woken
Poll(p) ==
    \E file \in SyncFiles :
        /\ ~oops
        /\ pc[p].st = "idle"
        /\ ValidFile(St, file)
        /\ LET R == dma_buf_poll(St, p, file)
           IN  Commit(IF R.ret = 0
                      THEN [R.S EXCEPT !.pc[p] = [st |-> "poll_wait", type |-> 0]]
                      ELSE R.S,
                      "poll", <<p, file>>, {}, R.ret)

\* ioctl() by an idle task on a struct dma_buf_fence whose ctx is 0 or what an
\* earlier call wrote there. A call that waits for the lock is taken when it
\* can go on.
Ioctl(p) ==
    \E file \in SyncFiles, cmd \in Cmds :
      \E fault \in CmdFaults(cmd),
         type \in IF cmd = "DMABUF_IOCTL_GET_FENCE" THEN AccessTypes ELSE {udf[p].type},
         ctx \in IF cmd \in {"DMABUF_IOCTL_GET_FENCE", "DMABUF_IOCTL_PUT_FENCE"}
                 THEN {0, udf[p].ctx} ELSE {udf[p].ctx} :
       \E garbage \in IF fault = "sync_init" THEN Garbage ELSE {0} :
        /\ ~oops
        /\ pc[p].st = "idle"
        /\ ValidFile(St, file)
        /\ LET df == [type |-> type, ctx |-> ctx]
               R == dma_buf_ioctl(St, p, file, cmd, df, fault, garbage)
               got == /\ cmd = "DMABUF_IOCTL_GET_FENCE"
                      /\ R.ret = 0
                      /\ R.S.udf[p].ctx # 0
               H == FenceHolders(R.S) \cup
                    IF got
                    THEN {[p |-> p, type |-> type, ctx |-> R.S.udf[p].ctx]}
                    ELSE {}
           IN  /\ ~R.blocked
               /\ Commit([R.S EXCEPT !.holders = H], cmd,
                         <<p, file, type, ctx, fault>>, {}, R.ret)

\* A buffer that was exported and given a descriptor; dmabuf->sync is there or
\* not
InitSync ==
    /\ dmabuf = [NewDmabuf(PRIV, Mandatory, BigSize) EXCEPT !.file = F_DMABUF]
    /\ \E syncOk \in BOOLEAN : robj = [ZeroRobj EXCEPT !.valid = syncOk]
    /\ robj2 = ZeroRobj
    /\ files = [f \in Files |->
                  IF f = F_OTHER
                  THEN [alive |-> TRUE, f_count |-> 1, f_op |-> OTHER_FOPS,
                        private_data |-> NULL]
                  ELSE [alive |-> TRUE, f_count |-> 1, f_op |-> DMA_BUF_FOPS,
                        private_data |-> DMABUF]]
    /\ fdtable = [fd \in Fds |-> IF fd = 0 THEN F_OTHER ELSE F_DMABUF]
    /\ krefs = 0
    /\ vma = NoVma
    /\ called = <<>>
    /\ nrelease = 0
    /\ hook_seen = NoSeen
    /\ attachs = NoAttachs
    /\ pc = AllIdle
    /\ holders = {}
    /\ ctxs = NoCtxs
    /\ udf = NoFences
    /\ last = [op |-> "fd", args |-> <<0>>, ops |-> {}, ret |-> 1]
    /\ oops = FALSE
    /\ vlock = VlockFree
    /\ fts = fts_probe(TRUE)

\* Advisory locks and poll, three tasks
NextSync ==
    \E p \in Procs :
        \/ FLock(p)
        \/ FLockWait(p)
        \/ LockAcquire(p)
        \/ LockRequeue(p)
        \/ Poll(p)

\* Fences and advisory locks, two tasks
NextFence ==
    \E p \in FenceProcs :
        \/ Ioctl(p)
        \/ FLock(p)

----------------------------------------------------------------------------
Next ==
    \/ Export
    \/ ToHandle
    \/ FromHandle
    \/ Release
    \/ Close
    \/ Vmap
    \/ Vunmap
    \/ MapRegion
    \/ Unmap
    \/ Mmap

Spec == Init /\ [][Next]_vars

\* dma_buf_export alone, over every operation table
SpecExport == InitExport /\ [][ExportEvery]_vars

\* The attachments of an exported buffer
SpecAttach == InitAttach /\ [][NextAttach]_vars

\* The advisory locks and the poll of an exported buffer
SpecSync == InitSync /\ [][NextSync]_vars

\* The same, with a scheduler that runs a woken task: a task that is woken
\* again and again while the buffer is unlocked gets to take the lock
SpecSyncFair == SpecSync /\ \A p \in Procs : SF_vars(LockAcquire(p))

\* The fences and the advisory locks of an exported buffer
SpecFence == InitSync /\ [][NextFence]_vars

----------------------------------------------------------------------------
\* DMABUF_IOCTL_GET_INFO and what it writes to the caller's struct dma_buf_info

dma_buf_get_info(S, info) ==
    [ret |-> 0, info |-> [fence_supported |-> 0, size |-> S.dmabuf.size]]

\* The struct dma_buf_info at arg after the ioctl: copy_to_user writes it when
\* nothing before has failed
InfoAtArg(S, file, info, fault) ==
    IF ~is_dma_buf_file(S, file) \/ S.files[file].private_data = NULL
    THEN info
    ELSE IF fault = "copy_from_user"
    THEN info
    ELSE LET R == dma_buf_get_info(S, info)
         IN  IF R.ret < 0 \/ fault = "copy_to_user" THEN info ELSE R.info

InfoFiles == {F_DMABUF, F_OTHER}
InfoArgs == {[fence_supported |-> f, size |-> 0] : f \in {0, 1}}

\* ioctl(fd, DMABUF_IOCTL_GET_INFO, &info) by an idle task
GetInfo(p) ==
    \E file \in InfoFiles, info \in InfoArgs,
       fault \in CmdFaults("DMABUF_IOCTL_GET_INFO") :
        /\ ~oops
        /\ pc[p].st = "idle"
        /\ ValidFile(St, file)
        /\ LET R == dma_buf_ioctl(St, p, file, "DMABUF_IOCTL_GET_INFO", udf[p], fault, 0)
           IN  Commit(R.S, "get_info",
                      <<p, file, fault, InfoAtArg(St, file, info, fault)>>, {}, R.ret)

\* A buffer of either size, with or without dmabuf->sync
InitInfo ==
    /\ \E size \in Sizes :
          dmabuf = [NewDmabuf(PRIV, Mandatory, size) EXCEPT !.file = F_DMABUF]
    /\ \E syncOk \in BOOLEAN : robj = [ZeroRobj EXCEPT !.valid = syncOk]
    /\ robj2 = ZeroRobj
    /\ files = [f \in Files |->
                  IF f = F_OTHER
                  THEN [alive |-> TRUE, f_count |-> 1, f_op |-> OTHER_FOPS,
                        private_data |-> NULL]
                  ELSE [alive |-> TRUE, f_count |-> 1, f_op |-> DMA_BUF_FOPS,
                        private_data |-> DMABUF]]
    /\ fdtable = [fd \in Fds |-> IF fd = 0 THEN F_OTHER ELSE F_DMABUF]
    /\ krefs = 0
    /\ vma = NoVma
    /\ called = <<>>
    /\ nrelease = 0
    /\ hook_seen = NoSeen
    /\ attachs = NoAttachs
    /\ pc = AllIdle
    /\ holders = {}
    /\ ctxs = NoCtxs
    /\ udf = NoFences
    /\ last = [op |-> "fd", args |-> <<0>>, ops |-> {}, ret |-> 1]
    /\ oops = FALSE
    /\ vlock = VlockFree
    /\ fts = fts_probe(TRUE)

NextInfo ==
    \E p \in FenceProcs :
        \/ GetInfo(p)
        \/ FLock(p)

SpecInfo == InitInfo /\ [][NextInfo]_vars



----------------------------------------------------------------------------
\* mmap() on a descriptor of the buffer: the mm sets up the vm area with a
\* reference to the file and calls the file's mmap operation; when that fails
\* the area is dropped again with its reference.

\* Mutant: the range test is left out
dma_buf_mmap_internal_NoRangeTest(S, file, v, hookret) ==
    IF ~is_dma_buf_file(S, file)
    THEN [S |-> S, ret |-> -EINVAL]
    ELSE [S |-> [S EXCEPT !.called = Append(@, "mmap"),
                          !.hook_seen = [NoSeen EXCEPT !.vm_file = v.vm_file,
                                                       !.vm_pgoff = v.vm_pgoff,
                                                       !.range = VmaPages(v),
                                                       !.hook_ret = hookret]],
          ret |-> hookret]

dma_buf_mmap_internal(S, file, v, hookret) ==
    IF ~is_dma_buf_file(S, file)
    THEN [S |-> S, ret |-> -EINVAL]
    ELSE IF ULongLess(ShiftRight(ULong(S.dmabuf.size), PAGE_SHIFT),
                      ULongAdd(v.vm_pgoff, VmaPages(v)))
    THEN [S |-> S, ret |-> -EINVAL]
    ELSE [S |-> [S EXCEPT !.called = Append(@, "mmap"),
                          !.hook_seen = [NoSeen EXCEPT !.vm_file = v.vm_file,
                                                       !.vm_pgoff = v.vm_pgoff,
                                                       !.range = VmaPages(v),
                                                       !.hook_ret = hookret]],
          ret |-> hookret]

\* Offsets and lengths of the system call: small ones, one past a half word,
\* and the largest ones
FilePgoffArgs == PgoffArgs \cup {ULong(2), ULong(3), <<1, 0>>, <<HALF - 1, HALF - 3>>}
FilePageArgs == {1, 2, 3}

SysMmap ==
    \E file \in SyncFiles, pgoff \in FilePgoffArgs, pages \in FilePageArgs,
       hookret \in MmapRets :
        /\ ~oops
        /\ ~vma.valid
        /\ ValidFile(St, file)
        /\ LET v == [valid |-> TRUE, vm_file |-> file, vm_pgoff |-> pgoff,
                     vm_start |-> VMA_BASE, vm_end |-> VMA_BASE + pages * PAGE_SIZE]
               S1 == get_file(St, file)
               R == dma_buf_mmap_internal(S1, file, v, hookret)
           IN  IF R.ret # 0
               THEN Commit(fput(R.S, file), "sys_mmap", <<file, pgoff, pages>>, {}, R.ret)
               ELSE Commit([R.S EXCEPT !.vma = v], "sys_mmap", <<file, pgoff, pages>>,
                           {}, 0)

NextFileMmap ==
    \/ SysMmap
    \/ Unmap

SpecFileMmap == InitInfo /\ [][NextFileMmap]_vars

----------------------------------------------------------------------------
\* vlock_trylock and vlock_unlock, one action for each instruction that reads
\* or writes the lock structure or the event register. vlock.cpu[c] holds the
\* registers of CPU c and whether its last vlock_trylock returned 0 and it has
\* not unlocked since; vlock.wins counts the calls that returned 0 since the
\* last vlock_unlock, vlock.calls the calls of vlock_trylock.

VStep(v) ==
    /\ vlock' = v
    /\ UNCHANGED <<dmabuf, robj, robj2, files, fdtable, krefs, vma, called, nrelease,
                   hook_seen, attachs, pc, holders, ctxs, udf, last, oops, fts>>

VAt(c, label) == vlock.cpu[c].pc = label

\* ldr r2, [r0, #VLOCK_VOTING_OFFSET]: the voting bytes as one word
VotingWord(v) ==
    LET Byte(i) == IF i \in CPUs THEN v.voting[i] ELSE 0
    IN  Byte(0) + 256 * Byte(1) + 65536 * Byte(2) + 16777216 * Byte(3)

\* sev: every CPU's event register is set
Sev(v) == [v EXCEPT !.event = [c \in CPUs |-> TRUE]]

\* eor r0, r1, r2 is zero exactly when the registers are equal
Eor(a, b) == IF a = b THEN 0 ELSE 1

\* add r1, r1, #VLOCK_VOTING_OFFSET, by a CPU that does not hold the lock
TrylockCall(c) ==
    /\ VAt(c, "idle")
    /\ ~vlock.cpu[c].holds
    /\ vlock.calls < MaxCalls
    /\ VStep([vlock EXCEPT !.cpu[c].pc = "voting_begin",
                           !.cpu[c].r0 = 0,
                           !.cpu[c].r1 = c + VLOCK_VOTING_OFFSET,
                           !.calls = @ + 1])

\* voting_begin: strb #1 to the CPU's voting byte
voting_begin(c) ==
    /\ VAt(c, "voting_begin")
    /\ VStep([vlock EXCEPT !.voting[c] = 1, !.cpu[c].pc = "load_owner"])

\* ldrb r2, [r0, #VLOCK_OWNER_OFFSET]; cmp; bne trylock_fail
LoadOwner(c) ==
    /\ VAt(c, "load_owner")
    /\ VStep([vlock EXCEPT !.cpu[c].r2 = vlock.owner,
                           !.cpu[c].pc = IF vlock.owner # VLOCK_OWNER_NONE
                                         THEN "trylock_fail"
                                         ELSE "submit_vote"])

\* strb r1, [r0, #VLOCK_OWNER_OFFSET]
SubmitVote(c) ==
    /\ VAt(c, "submit_vote")
    /\ VStep([vlock EXCEPT !.owner = vlock.cpu[c].r1 % 256,
                           !.cpu[c].pc = "voting_end"])

\* Mutant: trylock_fail returns without voting_end
voting_end_NotOnFail(c) ==
    /\ VAt(c, "voting_end") \/ VAt(c, "trylock_fail")
    /\ VStep([vlock EXCEPT !.voting[c] = IF VAt(c, "voting_end") THEN 0 ELSE @,
                           !.cpu[c].r2 = 0,
                           !.cpu[c].pc = IF VAt(c, "voting_end") THEN "sev" ELSE "fail_sev"])

\* voting_end: strb #0 to the CPU's voting byte, after the vote or at
\* trylock_fail
voting_end(c) ==
    /\ VAt(c, "voting_end") \/ VAt(c, "trylock_fail")
    /\ VStep([vlock EXCEPT !.voting[c] = 0,
                           !.cpu[c].r2 = 0,
                           !.cpu[c].pc = IF VAt(c, "voting_end") THEN "sev" ELSE "fail_sev"])

\* dsb; sev of voting_end. At trylock_fail: mov r0, #1; bx lr
VotingSev(c) ==
    /\ VAt(c, "sev") \/ VAt(c, "fail_sev")
    /\ VStep(IF VAt(c, "sev")
             THEN [Sev(vlock) EXCEPT !.cpu[c].pc = "wait"]
             ELSE [Sev(vlock) EXCEPT !.cpu[c].pc = "idle", !.cpu[c].r0 = 1,
                                     !.cpu[c].r1 = 0])

\* Mutant: the loop is left whatever the voting bytes are
WaitLoad_NoWait(c) ==
    /\ VAt(c, "wait")
    /\ VStep([vlock EXCEPT !.cpu[c].pc = "check"])

\* 0: ldr r2, [r0, #VLOCK_VOTING_OFFSET]; cmp r2, #0
WaitLoad(c) ==
    /\ VAt(c, "wait")
    /\ VStep([vlock EXCEPT !.cpu[c].r2 = IF VotingWord(vlock) = 0 THEN 0 ELSE 1,
                           !.cpu[c].pc = IF VotingWord(vlock) = 0 THEN "check" ELSE "wfe"])

\* wfene; bne 0b: the CPU goes on when its event register is set, and clears it
Wfe(c) ==
    /\ VAt(c, "wfe")
    /\ vlock.event[c]
    /\ VStep([vlock EXCEPT !.event[c] = FALSE, !.cpu[c].pc = "wait"])

\* ldrb r2, [r0, #VLOCK_OWNER_OFFSET]; eor r0, r1, r2; bx lr
CheckOwner(c) ==
    /\ VAt(c, "check")
    /\ LET r0 == Eor(vlock.cpu[c].r1 % 256, vlock.owner)
       IN  VStep([vlock EXCEPT !.cpu[c].pc = "idle",
                              !.cpu[c].r0 = r0,
                              !.cpu[c].r1 = 0,
                              !.cpu[c].holds = (r0 = 0),
                              !.wins = IF r0 = 0 THEN @ + 1 ELSE @])

\* vlock_unlock, by the CPU whose vlock_trylock returned 0
UnlockCall(c) ==
    /\ VAt(c, "idle")
    /\ vlock.cpu[c].holds
    /\ VStep([vlock EXCEPT !.cpu[c].pc = "unlock"])

\* mov r1, #VLOCK_OWNER_NONE; dsb; strb r1, [r0, #VLOCK_OWNER_OFFSET]
UnlockStore(c) ==
    /\ VAt(c, "unlock")
    /\ VStep([vlock EXCEPT !.owner = VLOCK_OWNER_NONE,
                           !.wins = 0,
                           !.cpu[c].holds = FALSE,
                           !.cpu[c].pc = "unlock_sev"])

\* dsb; sev; mov pc, lr
UnlockSev(c) ==
    /\ VAt(c, "unlock_sev")
    /\ VStep([Sev(vlock) EXCEPT !.cpu[c].pc = "idle"])

\* The instructions of a call that has begun
vlock_trylock(c) ==
    \/ voting_begin(c)
    \/ LoadOwner(c)
    \/ SubmitVote(c)
    \/ voting_end(c)
    \/ VotingSev(c)
    \/ WaitLoad(c)
    \/ Wfe(c)
    \/ CheckOwner(c)

vlock_unlock(c) ==
    \/ UnlockStore(c)
    \/ UnlockSev(c)

NextVlock ==
    \E c \in CPUs :
        \/ TrylockCall(c)
        \/ UnlockCall(c)
        \/ vlock_trylock(c)
        \/ vlock_unlock(c)

SpecVlock == Init /\ [][NextVlock]_vars

\* Every CPU goes on executing the call it is in
SpecVlockFair ==
    SpecVlock /\ \A c \in CPUs : WF_vars(vlock_trylock(c) \/ vlock_unlock(c))

----------------------------------------------------------------------------
\* fts_stop_device and fts_start_device, statement by statement, called by
\* the input core (open, close), the PM core (suspend, resume) and the
\* delayed work of open. device_mutex is 0 or the task that holds it.

FStep(f) ==
    /\ fts' = f
    /\ UNCHANGED <<dmabuf, robj, robj2, files, fdtable, krefs, vma, called, nrelease,
                   hook_seen, attachs, pc, holders, ctxs, udf, last, oops, vlock>>

FAt(t, st) == fts.task[t].st = st

\* disable_irq nests; enable_irq of an enabled line is refused with a warning
disable_irq(f) == [f EXCEPT !.irq_depth = @ + 1]
enable_irq(f) ==
    IF f.irq_depth = 0
    THEN [f EXCEPT !.unbalanced = TRUE]
    ELSE [f EXCEPT !.irq_depth = @ - 1]

\* fts_input_close, fts_pm_suspend, fts_suspend: open and close are there in
\* a build with USE_OPEN_CLOSE only, and task 1 is the input core
StopCall(t) ==
    /\ FAt(t, "idle")
    /\ t = 1 => fts.use_open_close
    /\ FStep([fts EXCEPT !.task[t] = [st |-> "stop_lock", did |-> "none"]])

StopLock(t) ==
    /\ FAt(t, "stop_lock")
    /\ fts.device_mutex = 0
    /\ FStep([fts EXCEPT !.device_mutex = t, !.task[t].st = "stop_test"])

\* if (info->touch_stopped) goto out
StopTest(t) ==
    /\ FAt(t, "stop_test")
    /\ FStep(IF fts.touch_stopped
             THEN [fts EXCEPT !.task[t] = [st |-> "stop_out", did |-> "nothing"]]
             ELSE [fts EXCEPT !.task[t].st = "stop_disable"])

StopDisable(t) ==
    /\ FAt(t, "stop_disable")
    /\ FStep([disable_irq(fts) EXCEPT !.task[t].st = "stop_set"])

\* info->touch_stopped = true
StopSet(t) ==
    /\ FAt(t, "stop_set")
    /\ FStep([fts EXCEPT !.touch_stopped = TRUE,
                         !.task[t] = [st |-> "stop_out", did |-> "stopped"]])

StopUnlock(t) ==
    /\ FAt(t, "stop_out")
    /\ FStep([fts EXCEPT !.device_mutex = 0, !.task[t].st = "idle"])

\* fts_input_open, fts_open_work, fts_pm_resume, fts_resume
StartCall(t) ==
    /\ FAt(t, "idle")
    /\ t = 1 => fts.use_open_close
    /\ FStep([fts EXCEPT !.task[t] = [st |-> "start_lock", did |-> "none"]])

StartLock(t) ==
    /\ FAt(t, "start_lock")
    /\ fts.device_mutex = 0
    /\ FStep([fts EXCEPT !.device_mutex = t, !.task[t].st = "start_test"])

\* Mutant: the device is started whether it was stopped or not
StartTest_NoTest(t) ==
    /\ FAt(t, "start_test")
    /\ FStep([fts EXCEPT !.task[t].st = "start_set"])

\* if (!info->touch_stopped) goto out
StartTest(t) ==
    /\ FAt(t, "start_test")
    /\ FStep(IF ~fts.touch_stopped
             THEN [fts EXCEPT !.task[t] = [st |-> "start_out", did |-> "nothing"]]
             ELSE [fts EXCEPT !.task[t].st = "start_set"])

\* info->touch_stopped = false
StartSet(t) ==
    /\ FAt(t, "start_set")
    /\ FStep([fts EXCEPT !.touch_stopped = FALSE, !.task[t].st = "start_enable"])

StartEnable(t) ==
    /\ FAt(t, "start_enable")
    /\ FStep([enable_irq(fts) EXCEPT !.task[t] = [st |-> "start_out", did |-> "started"]])

StartUnlock(t) ==
    /\ FAt(t, "start_out")
    /\ FStep([fts EXCEPT !.device_mutex = 0, !.task[t].st = "idle"])

fts_stop_device(t) ==
    \/ StopLock(t)
    \/ StopTest(t)
    \/ StopDisable(t)
    \/ StopSet(t)
    \/ StopUnlock(t)

fts_start_device(t) ==
    \/ StartLock(t)
    \/ StartTest(t)
    \/ StartSet(t)
    \/ StartEnable(t)
    \/ StartUnlock(t)

\* The driver after fts_probe, in a build with USE_OPEN_CLOSE or without
InitFts ==
    /\ dmabuf = ZeroBuf
    /\ robj = ZeroRobj
    /\ robj2 = ZeroRobj
    /\ files = [f \in Files |->
                  IF f = F_OTHER
                  THEN [alive |-> TRUE, f_count |-> 1, f_op |-> OTHER_FOPS,
                        private_data |-> NULL]
                  ELSE NoFile]
    /\ fdtable = [fd \in Fds |-> IF fd = 0 THEN F_OTHER ELSE NULL]
    /\ krefs = 0
    /\ vma = NoVma
    /\ called = <<>>
    /\ nrelease = 0
    /\ hook_seen = NoSeen
    /\ attachs = NoAttachs
    /\ pc = AllIdle
    /\ holders = {}
    /\ ctxs = NoCtxs
    /\ udf = NoFences
    /\ last = [op |-> "init", args |-> <<>>, ops |-> {}, ret |-> 0]
    /\ oops = FALSE
    /\ vlock = VlockFree
    /\ \E use_open_close \in BOOLEAN : fts = fts_probe(use_open_close)

NextFts ==
    \E t \in FtsTasks :
        \/ StopCall(t)
        \/ StartCall(t)
        \/ fts_stop_device(t)
        \/ fts_start_device(t)

SpecFts == InitFts /\ [][NextFts]_vars

----------------------------------------------------------------------------
\* Two exported buffers. The file operations reach the reservation through
\* filp->private_data, the buffer of the file: on a file of the second buffer
\* every access to dmabuf->sync is an access to robj2.

Bufs == {DMABUF, DMABUF + 1}

Robj(b) == IF b = DMABUF THEN robj ELSE robj2

\* Mutant: one reservation for all the buffers
OnBuffer_Global(S, b) == S

\* The kernel state with the reservation of buffer b as dmabuf->sync; applied
\* to its own result it gives the state back
OnBuffer(S, b) ==
    IF b = DMABUF THEN S ELSE [S EXCEPT !.robj = S.robj2, !.robj2 = S.robj]

\* fcntl(fd, F_SETLK) on a descriptor of buffer b. A locked buffer is unlocked
\* by the task that locked it.
FLockOn(p, b) ==
    \E fl_type \in {F_RDLCK, F_WRLCK, F_UNLCK} :
        /\ ~oops
        /\ pc[p].st = "idle"
        /\ (fl_type = F_UNLCK /\ Robj(b).locked) =>
               [p |-> p, type |-> Robj(b).accessed_type, ctx |-> 0, buf |-> b] \in holders
        /\ LET R == dma_buf_lock(OnBuffer(St, b), p, F_DMABUF, fl_type, 0)
               H == IF R.ret # 0
                    THEN holders
                    ELSE IF fl_type = F_UNLCK
                    THEN {h \in holders : ~(h.p = p /\ h.ctx = 0 /\ h.buf = b)}
                    ELSE holders \cup {[p |-> p, type |-> WantedType(fl_type),
                                        ctx |-> 0, buf |-> b]}
           IN  Commit([OnBuffer(R.S, b) EXCEPT !.holders = H], "flock",
                      <<p, b, fl_type>>, {}, R.ret)

\* ioctl(fd, DMABUF_IOCTL_GET_FENCE) on a descriptor of buffer b, by a task
\* whose struct dma_buf_fence has ctx 0. A call that waits for the lock is
\* taken when it can go on.
GetFenceOn(p, b) ==
    \E type \in AccessTypes :
        /\ ~oops
        /\ pc[p].st = "idle"
        /\ udf[p].ctx = 0
        /\ LET df == [type |-> type, ctx |-> 0]
               R == dma_buf_ioctl(OnBuffer(St, b), p, F_DMABUF, "DMABUF_IOCTL_GET_FENCE",
                                  df, "none", 0)
               S1 == OnBuffer(R.S, b)
           IN  /\ ~R.blocked
               /\ Commit([S1 EXCEPT !.holders = @ \cup
                                       {[p |-> p, type |-> type, ctx |-> S1.udf[p].ctx,
                                         buf |-> b]}],
                         "DMABUF_IOCTL_GET_FENCE", <<p, b, type>>, {}, R.ret)

\* ioctl(fd, DMABUF_IOCTL_PUT_FENCE) on a descriptor of buffer b with the ctx
\* that a GET_FENCE on this buffer wrote
PutFenceOn(p, b) ==
    /\ ~oops
    /\ pc[p].st = "idle"
    /\ udf[p].ctx # 0
    /\ [p |-> p, type |-> udf[p].type, ctx |-> udf[p].ctx, buf |-> b] \in holders
    /\ LET R == dma_buf_ioctl(OnBuffer(St, b), p, F_DMABUF, "DMABUF_IOCTL_PUT_FENCE",
                              udf[p], "none", 0)
           S1 == OnBuffer(R.S, b)
       IN  Commit([S1 EXCEPT !.holders = {h \in @ : h.ctx # udf[p].ctx}],
                  "DMABUF_IOCTL_PUT_FENCE", <<p, b, udf[p].type>>, {}, R.ret)

\* Two buffers that were exported with a reservation and given descriptors
InitTwo ==
    /\ dmabuf = [NewDmabuf(PRIV, Mandatory, BigSize) EXCEPT !.file = F_DMABUF]
    /\ robj = [ZeroRobj EXCEPT !.valid = TRUE]
    /\ robj2 = [ZeroRobj EXCEPT !.valid = TRUE]
    /\ files = [f \in Files |->
                  IF f = F_OTHER
                  THEN [alive |-> TRUE, f_count |-> 1, f_op |-> OTHER_FOPS,
                        private_data |-> NULL]
                  ELSE [alive |-> TRUE, f_count |-> 1, f_op |-> DMA_BUF_FOPS,
                        private_data |-> DMABUF]]
    /\ fdtable = [fd \in Fds |-> IF fd = 0 THEN F_OTHER ELSE F_DMABUF]
    /\ krefs = 0
    /\ vma = NoVma
    /\ called = <<>>
    /\ nrelease = 0
    /\ hook_seen = NoSeen
    /\ attachs = NoAttachs
    /\ pc = AllIdle
    /\ holders = {}
    /\ ctxs = NoCtxs
    /\ udf = NoFences
    /\ last = [op |-> "fd", args |-> <<0>>, ops |-> {}, ret |-> 1]
    /\ oops = FALSE
    /\ vlock = VlockFree
    /\ fts = fts_probe(TRUE)

NextTwo ==
    \E p \in FenceProcs, b \in Bufs :
        \/ FLockOn(p, b)
        \/ GetFenceOn(p, b)
        \/ PutFenceOn(p, b)

\* The advisory locks and the fences of two buffers
SpecTwo == InitTwo /\ [][NextTwo]_vars

----------------------------------------------------------------------------
\* Tasks running dma_buf_vmap, dma_buf_vunmap, dma_buf_attach, dma_buf_detach,
\* dma_buf_map_attachment and dma_buf_unmap_attachment at the same time, one
\* statement at a time. dmabuf.lock is the owner of dmabuf->lock (0: nobody).
\* pc[p] holds where the task is (st), the locals of the call it runs (attach,
\* ptr, seen) and what its caller keeps between calls: vaddr, the address its
\* last successful vmap returned; maps, the vmaps it has not yet given to
\* vunmap; owned, the attachments it got and has not yet given to detach;
\* sgt, the attachment it has mapped.

Tasks == {1, 2}

KIdle == [st |-> "idle", type |-> 0, attach |-> NULL, ptr |-> NULL, seen |-> {},
          vaddr |-> NULL, maps |-> 0, owned |-> {}, sgt |-> NULL]

\* A step of a task: what it writes, the rest is left alone
Step(buf, att, tasks, seen, bug) ==
    /\ dmabuf' = buf
    /\ attachs' = att
    /\ pc' = tasks
    /\ hook_seen' = seen
    /\ oops' = bug
    /\ UNCHANGED <<robj, robj2, files, fdtable, krefs, vma, called, nrelease, holders,
                   ctxs, udf, last, vlock, fts>>

\* Task p is at st
At(p, st) == ~oops /\ krefs > 0 /\ pc[p].st = st

\* Mutant: the mutex is taken without waiting for its owner to release it
mutex_lock_NoWait(p, next) ==
    Step([dmabuf EXCEPT !.lock = p], attachs, [pc EXCEPT ![p].st = next], hook_seen,
         FALSE)

\* mutex_lock(&dmabuf->lock): the task goes on when the mutex is free
mutex_lock(p, next) ==
    /\ dmabuf.lock = 0
    /\ Step([dmabuf EXCEPT !.lock = p], attachs, [pc EXCEPT ![p].st = next], hook_seen,
            FALSE)

\* dma_buf_vmap, lines 736-740: a buffer with ops->vmap. A caller holds fewer
\* than MaxVmap vmaps, and one that has called dma_buf_vunmap once too often
\* makes no further call.
VmapCall(p) ==
    /\ At(p, "idle")
    /\ pc[p].maps >= 0
    /\ pc[p].maps < MaxVmap - 1
    /\ "vmap" \in dmabuf.ops
    /\ Step(dmabuf, attachs, [pc EXCEPT ![p].st = "vmap_lock"], hook_seen, FALSE)

VmapLock(p) == At(p, "vmap_lock") /\ mutex_lock(p, "vmap_test")

\* lines 743-750
VmapTest(p) ==
    /\ At(p, "vmap_test")
    /\ IF dmabuf.vmapping_counter # 0
       THEN Step([dmabuf EXCEPT !.vmapping_counter = @ + 1], attachs,
                 [pc EXCEPT ![p].st = "vmap_unlock", ![p].ptr = dmabuf.vmap_ptr],
                 hook_seen, dmabuf.vmap_ptr = NULL)
       ELSE Step(dmabuf, attachs, [pc EXCEPT ![p].st = "vmap_hook"], hook_seen,
                 dmabuf.vmap_ptr # NULL)

\* lines 752-754: ops->vmap returns
VmapHook(p) ==
    \E hookret \in VmapRets :
        /\ At(p, "vmap_hook")
        /\ Step(dmabuf, attachs,
                [pc EXCEPT ![p].st = IF IS_ERR_OR_NULL(hookret)
                                     THEN "vmap_unlock" ELSE "vmap_store_ptr",
                           ![p].ptr = hookret],
                hook_seen, FALSE)

\* line 756
VmapStorePtr(p) ==
    /\ At(p, "vmap_store_ptr")
    /\ Step([dmabuf EXCEPT !.vmap_ptr = pc[p].ptr], attachs,
            [pc EXCEPT ![p].st = "vmap_store_counter"], hook_seen, FALSE)

\* line 757
VmapStoreCounter(p) ==
    /\ At(p, "vmap_store_counter")
    /\ Step([dmabuf EXCEPT !.vmapping_counter = 1], attachs,
            [pc EXCEPT ![p].st = "vmap_unlock"], hook_seen, FALSE)

\* lines 760-761: the caller keeps the address of a vmap that succeeded
VmapUnlock(p) ==
    /\ At(p, "vmap_unlock")
    /\ Step([dmabuf EXCEPT !.lock = 0], attachs,
            [pc EXCEPT ![p] = IF IS_ERR_OR_NULL(pc[p].ptr)
                              THEN [@ EXCEPT !.st = "idle", !.ptr = NULL]
                              ELSE [@ EXCEPT !.st = "idle", !.ptr = NULL,
                                             !.vaddr = pc[p].ptr, !.maps = @ + 1]],
            hook_seen, FALSE)

\* dma_buf_vunmap(dmabuf, vaddr) with the address an earlier vmap returned to
\* the caller. A caller that has no vmap left to undo (maps = 0) calls it once
\* too often.
VunmapCall(p) ==
    /\ At(p, "idle")
    /\ pc[p].vaddr # NULL
    /\ pc[p].maps >= 0
    /\ Step(dmabuf, attachs,
            [pc EXCEPT ![p].st = "vunmap_test_ptr", ![p].maps = @ - 1],
            hook_seen, FALSE)

\* line 774
VunmapTestPtr(p) ==
    /\ At(p, "vunmap_test_ptr")
    /\ Step(dmabuf, attachs, [pc EXCEPT ![p].st = "vunmap_test_counter"], hook_seen,
            dmabuf.vmap_ptr = NULL)

\* line 775
VunmapTestCounter(p) ==
    /\ At(p, "vunmap_test_counter")
    /\ Step(dmabuf, attachs, [pc EXCEPT ![p].st = "vunmap_test_vaddr"], hook_seen,
            dmabuf.vmapping_counter = 0)

\* line 776
VunmapTestVaddr(p) ==
    /\ At(p, "vunmap_test_vaddr")
    /\ Step(dmabuf, attachs, [pc EXCEPT ![p].st = "vunmap_lock"], hook_seen,
            dmabuf.vmap_ptr # pc[p].vaddr)

VunmapLock(p) == At(p, "vunmap_lock") /\ mutex_lock(p, "vunmap_dec")

\* line 779. The counter below 0 stands for the counter having wrapped.
VunmapDec(p) ==
    /\ At(p, "vunmap_dec")
    /\ Step([dmabuf EXCEPT !.vmapping_counter = @ - 1], attachs,
            [pc EXCEPT ![p].st = IF dmabuf.vmapping_counter - 1 = 0
                                 THEN "vunmap_hook" ELSE "vunmap_unlock"],
            hook_seen, FALSE)

\* lines 780-781: ops->vunmap(dmabuf, vaddr), if there is one
VunmapHook(p) ==
    /\ At(p, "vunmap_hook")
    /\ Step(dmabuf, attachs, [pc EXCEPT ![p].st = "vunmap_clear"],
            IF "vunmap" \in dmabuf.ops
            THEN [NoSeen EXCEPT !.hook_ret = pc[p].vaddr]
            ELSE hook_seen,
            FALSE)

\* line 782
VunmapClear(p) ==
    /\ At(p, "vunmap_clear")
    /\ Step([dmabuf EXCEPT !.vmap_ptr = NULL], attachs,
            [pc EXCEPT ![p].st = "vunmap_unlock"], NoSeen, FALSE)

\* line 784
VunmapUnlock(p) ==
    /\ At(p, "vunmap_unlock")
    /\ Step([dmabuf EXCEPT !.lock = 0], attachs, [pc EXCEPT ![p].st = "idle"],
            hook_seen, FALSE)

\* dma_buf_attach(dmabuf, dev), lines 461-469: kzalloc gave a record
AttachCall(p) ==
    \E dev \in Devs :
        /\ At(p, "idle")
        /\ AllocAttach(St, TRUE) # NULL
        /\ LET a == AllocAttach(St, TRUE)
           IN  Step(dmabuf,
                    [attachs EXCEPT ![a] = [live |-> TRUE, dev |-> dev,
                                            dmabuf |-> DMABUF]],
                    [pc EXCEPT ![p].st = "attach_lock", ![p].attach = a],
                    hook_seen, FALSE)

\* line 471; at attach_hook the task is inside ops->attach
AttachLock(p) ==
    /\ At(p, "attach_lock")
    /\ mutex_lock(p, IF "attach" \in dmabuf.ops THEN "attach_hook" ELSE "list_add")

\* lines 474-476: ops->attach returns
AttachHook(p) ==
    \E hookret \in {0, -ENOMEM} :
        /\ At(p, "attach_hook")
        /\ Step(dmabuf, attachs,
                [pc EXCEPT ![p].st = IF hookret # 0 THEN "err_attach" ELSE "list_add"],
                [NoSeen EXCEPT !.attach = pc[p].attach,
                               !.in_set = pc[p].attach \in dmabuf.attachments,
                               !.hook_ret = hookret],
                FALSE)

\* line 478, list_add reading the list
AttachListRead(p) ==
    /\ At(p, "list_add")
    /\ Step(dmabuf, attachs,
            [pc EXCEPT ![p].st = "list_add_write", ![p].seen = dmabuf.attachments],
            NoSeen, FALSE)

\* line 478, list_add writing the list with the record linked in
AttachListWrite(p) ==
    /\ At(p, "list_add_write")
    /\ Step([dmabuf EXCEPT !.attachments = pc[p].seen \cup {pc[p].attach}], attachs,
            [pc EXCEPT ![p].st = "attach_unlock", ![p].seen = {}],
            hook_seen, FALSE)

\* line 484
AttachFree(p) ==
    /\ At(p, "err_attach")
    /\ Step(dmabuf, [attachs EXCEPT ![pc[p].attach] = NoAttach],
            [pc EXCEPT ![p].st = "attach_unlock", ![p].attach = NULL],
            NoSeen, FALSE)

\* lines 480-481 and 485-486: the caller keeps the attachment it got
AttachUnlock(p) ==
    /\ At(p, "attach_unlock")
    /\ Step([dmabuf EXCEPT !.lock = 0], attachs,
            [pc EXCEPT ![p] = [@ EXCEPT !.st = "idle", !.attach = NULL,
                                        !.owned = IF pc[p].attach = NULL
                                                  THEN @ ELSE @ \cup {pc[p].attach}]],
            hook_seen, FALSE)

\* dma_buf_detach(dmabuf, attach) of an attachment the caller got and has not
\* mapped
DetachCall(p) ==
    \E a \in pc[p].owned \ {pc[p].sgt} :
        /\ At(p, "idle")
        /\ Step(dmabuf, attachs,
                [pc EXCEPT ![p].st = "detach_lock", ![p].attach = a,
                           ![p].owned = @ \ {a}],
                hook_seen, FALSE)

\* Mutant: the attachment is freed first, before it is unlinked
DetachLock_FreesFirst(p) ==
    /\ At(p, "detach_lock")
    /\ dmabuf.lock = 0
    /\ Step([dmabuf EXCEPT !.lock = p], [attachs EXCEPT ![pc[p].attach] = NoAttach],
            [pc EXCEPT ![p].st = "list_del"], hook_seen, FALSE)

\* line 502
DetachLock(p) == At(p, "detach_lock") /\ mutex_lock(p, "list_del")

\* line 503; at detach_hook the task is inside ops->detach
DetachListDel(p) ==
    /\ At(p, "list_del")
    /\ Step([dmabuf EXCEPT !.attachments = @ \ {pc[p].attach}], attachs,
            [pc EXCEPT ![p].st = IF "detach" \in dmabuf.ops
                                 THEN "detach_hook" ELSE "detach_unlock"],
            hook_seen, FALSE)

\* lines 504-505: ops->detach returns
DetachHook(p) ==
    /\ At(p, "detach_hook")
    /\ Step(dmabuf, attachs, [pc EXCEPT ![p].st = "detach_unlock"],
            [NoSeen EXCEPT !.attach = pc[p].attach,
                           !.in_set = pc[p].attach \in dmabuf.attachments],
            FALSE)

\* line 507
DetachUnlock(p) ==
    /\ At(p, "detach_unlock")
    /\ Step([dmabuf EXCEPT !.lock = 0], attachs, [pc EXCEPT ![p].st = "kfree"],
            NoSeen, FALSE)

\* line 508
DetachFree(p) ==
    /\ At(p, "kfree")
    /\ Step(dmabuf, [attachs EXCEPT ![pc[p].attach] = NoAttach],
            [pc EXCEPT ![p].st = "idle", ![p].attach = NULL],
            hook_seen, FALSE)

\* Mutant: dmabuf->lock is taken around ops->map_dma_buf
MapCall_Locked(p) ==
    \E a \in pc[p].owned :
        /\ At(p, "idle")
        /\ pc[p].sgt = NULL
        /\ dmabuf.lock = 0
        /\ Step([dmabuf EXCEPT !.lock = p], attachs,
                [pc EXCEPT ![p].st = "map_hook", ![p].attach = a],
                hook_seen, FALSE)

\* dma_buf_map_attachment(attach, direction), lines 527-533: the task enters
\* ops->map_dma_buf, where it may sleep
MapCall(p) ==
    \E a \in pc[p].owned :
        /\ At(p, "idle")
        /\ pc[p].sgt = NULL
        /\ Step(dmabuf, attachs, [pc EXCEPT ![p].st = "map_hook", ![p].attach = a],
                hook_seen, FALSE)

\* lines 533-535: ops->map_dma_buf returns a table or an ERR_PTR
MapReturn(p) ==
    \E hookret \in MapRets :
        /\ At(p, "map_hook")
        /\ Step(dmabuf, attachs,
                [pc EXCEPT ![p].st = "idle", ![p].attach = NULL,
                           ![p].sgt = IF IS_ERR_OR_NULL(hookret)
                                      THEN NULL ELSE pc[p].attach],
                hook_seen, FALSE)

\* dma_buf_unmap_attachment(attach, sg_table, direction), lines 551-555: the
\* task enters ops->unmap_dma_buf
UnmapCall(p) ==
    /\ At(p, "idle")
    /\ pc[p].sgt # NULL
    /\ Step(dmabuf, attachs, [pc EXCEPT ![p].st = "unmap_hook", ![p].attach = pc[p].sgt],
            hook_seen, FALSE)

\* line 556: ops->unmap_dma_buf returns
UnmapReturn(p) ==
    /\ At(p, "unmap_hook")
    /\ Step(dmabuf, attachs,
            [pc EXCEPT ![p].st = "idle", ![p].attach = NULL, ![p].sgt = NULL],
            hook_seen, FALSE)

ConcOps == {AllHooks, Mandatory \cup {"vmap", "attach"}}

\* An exported buffer and two tasks that hold a reference to it
InitConc ==
    /\ \E ops \in ConcOps :
         dmabuf = [NewDmabuf(PRIV, ops, BigSize) EXCEPT !.file = F_DMABUF]
    /\ robj = [ZeroRobj EXCEPT !.valid = TRUE]
    /\ robj2 = ZeroRobj
    /\ files = [f \in Files |->
                  IF f = F_OTHER
                  THEN [alive |-> TRUE, f_count |-> 1, f_op |-> OTHER_FOPS,
                        private_data |-> NULL]
                  ELSE [alive |-> TRUE, f_count |-> 1, f_op |-> DMA_BUF_FOPS,
                        private_data |-> DMABUF]]
    /\ fdtable = [fd \in Fds |-> IF fd = 0 THEN F_OTHER ELSE NULL]
    /\ krefs = 1
    /\ vma = NoVma
    /\ called = <<>>
    /\ nrelease = 0
    /\ hook_seen = NoSeen
    /\ attachs = NoAttachs
    /\ pc = [p \in Procs |-> IF p \in Tasks THEN KIdle ELSE Idle]
    /\ holders = {}
    /\ ctxs = NoCtxs
    /\ udf = NoFences
    /\ last = [op |-> "export", args |-> <<PRIV, BigSize>>, ops |-> dmabuf.ops,
               ret |-> DMABUF]
    /\ oops = FALSE
    /\ vlock = VlockFree
    /\ fts = fts_probe(TRUE)

\* The steps of a dma_buf_vmap or dma_buf_vunmap that has begun
VmapAdvance(p) ==
    \/ VmapLock(p)
    \/ VmapTest(p)
    \/ VmapHook(p)
    \/ VmapStorePtr(p)
    \/ VmapStoreCounter(p)
    \/ VmapUnlock(p)
    \/ VunmapTestPtr(p)
    \/ VunmapTestCounter(p)
    \/ VunmapTestVaddr(p)
    \/ VunmapLock(p)
    \/ VunmapDec(p)
    \/ VunmapHook(p)
    \/ VunmapClear(p)
    \/ VunmapUnlock(p)

\* The steps of a dma_buf_attach that has begun
AttachSteps(p) ==
    \/ AttachLock(p)
    \/ AttachHook(p)
    \/ AttachListRead(p)
    \/ AttachListWrite(p)
    \/ AttachFree(p)
    \/ AttachUnlock(p)

\* The steps of a dma_buf_detach that has begun
DetachSteps(p) ==
    \/ DetachLock(p)
    \/ DetachListDel(p)
    \/ DetachHook(p)
    \/ DetachUnlock(p)
    \/ DetachFree(p)

AttachAdvance(p) == AttachSteps(p) \/ DetachSteps(p)

NextVmap ==
    \E p \in Tasks :
        \/ VmapCall(p)
        \/ VunmapCall(p)
        \/ VmapAdvance(p)

NextConc ==
    \E p \in Tasks :
        \/ AttachCall(p)
        \/ DetachCall(p)
        \/ AttachAdvance(p)
        \/ MapCall(p)
        \/ MapReturn(p)
        \/ UnmapCall(p)
        \/ UnmapReturn(p)

\* One task attaches a device and maps the attachment, the other attaches,
\* detaches, vmaps and vunmaps
Mapper == 1
Worker == 2

NextMap ==
    \/ \E p \in {Mapper} :
        \/ AttachCall(p)
        \/ AttachSteps(p)
        \/ MapCall(p)
        \/ MapReturn(p)
        \/ UnmapCall(p)
        \/ UnmapReturn(p)
    \/ \E p \in {Worker} :
        \/ AttachCall(p)
        \/ DetachCall(p)
        \/ AttachAdvance(p)
        \/ VmapCall(p)
        \/ VunmapCall(p)
        \/ VmapAdvance(p)

\* Concurrent dma_buf_vmap and dma_buf_vunmap on one buffer
SpecVmap == InitConc /\ [][NextVmap]_vars

\* Concurrent dma_buf_attach, dma_buf_detach, dma_buf_map_attachment and
\* dma_buf_unmap_attachment on one buffer
SpecConc == InitConc /\ [][NextConc]_vars

\* A task in the exporter's map or unmap beside a task using the buffer, with
\* a scheduler that runs every task that can go on and a mutex that is handed
\* to every task waiting for it; the exporter's map and unmap need not return
SpecMap ==
    /\ InitConc
    /\ [][NextMap]_vars
    /\ \A p \in Tasks : SF_vars(AttachAdvance(p) \/ VmapAdvance(p))

----------------------------------------------------------------------------
\* Claims

\* C1: dma_buf_export rejects with -EINVAL, allocating neither a buffer object
\* nor a file, exactly when priv is NULL, ops is NULL or one of map_dma_buf,
\* unmap_dma_buf, release, kmap_atomic, kmap, mmap is missing; a missing optional
\* operation never causes the rejection.
C1_Required == {"map_dma_buf", "unmap_dma_buf", "release", "kmap_atomic", "kmap", "mmap"}
C1_Incomplete ==
    \/ last.args[1] = NULL
    \/ last.ops = NULL_OPS
    \/ \E h \in C1_Required : h \notin last.ops
C1_ExportRejectsIncomplete ==
    last.op = "export" =>
        /\ C1_Incomplete =>
              /\ last.ret = ERR_PTR(-EINVAL)
              /\ dmabuf.state = "none"
              /\ \A f \in Files : ~files[f].alive
        /\ ~C1_Incomplete => last.ret # ERR_PTR(-EINVAL)
C1_Witness ==
    /\ last.op = "export"
    /\ last.args[1] = PRIV
    /\ last.ops = AllHooks \ {"release"}
    /\ last.ret = ERR_PTR(-EINVAL)
    /\ dmabuf.state = "none"

\* C2: a buffer returned by dma_buf_export has no attachment, no cached mapping
\* (vmap_ptr NULL, vmapping_counter 0), an unlocked reservation with no poll
\* event and no waiter, and the size, ops and priv that were passed.
C2_ExportedBufferIsFresh ==
    (last.op = "export" /\ ~IS_ERR(last.ret)) =>
        /\ last.ret = DMABUF
        /\ dmabuf.state = "live"
        /\ dmabuf.attachments = {}
        /\ dmabuf.vmap_ptr = NULL
        /\ dmabuf.vmapping_counter = 0
        /\ ~robj.locked
        /\ ~robj.poll_event
        /\ robj.waiters = {}
        /\ dmabuf.priv = last.args[1]
        /\ dmabuf.size = last.args[2]
        /\ dmabuf.ops = last.ops
C2_Witness ==
    /\ last.op = "export"
    /\ last.ret = DMABUF
    /\ dmabuf.size = BigSize
    /\ dmabuf.ops = Mandatory
    /\ robj.valid

\* References to the buffer's file that are outstanding: those of in-kernel
\* callers, of descriptors and of the vm area
C3_Holders(k, t, v) ==
    k + Cardinality({fd \in Fds : t[fd] = F_DMABUF})
      + (IF v.valid /\ v.vm_file = F_DMABUF THEN 1 ELSE 0)

\* C3: whatever the interleaving of acquisitions and releases, the buffer is torn
\* down exactly once, by the release that brings f_count to zero and not before;
\* ops->release runs exactly once and never while a reference is outstanding.
\* (A release with a kernel mapping outstanding is the fatal case of
\* dma_buf_release and tears nothing down.)
C3_TornDownOnceAtLastRelease ==
    [][/\ nrelease' <= 1
       /\ (dmabuf'.state = "freed") <=> (nrelease' = 1)
       /\ (dmabuf.state = "live" /\ dmabuf'.state = "freed") =>
             /\ files[F_DMABUF].f_count = 1
             /\ ~files'[F_DMABUF].alive
             /\ last'.op \in {"put", "close", "munmap"}
       /\ ("release" \in {called'[i] : i \in 1 .. Len(called')}) =>
             /\ dmabuf.state = "live"
             /\ C3_Holders(krefs', fdtable', vma') = 0
       /\ (/\ files[F_DMABUF].alive
           /\ files[F_DMABUF].f_count = 1
           /\ C3_Holders(krefs', fdtable', vma') < C3_Holders(krefs, fdtable, vma)) =>
             \/ dmabuf'.state = "freed"
             \/ dmabuf.vmapping_counter # 0 /\ oops'
       /\ (dmabuf'.state = "live" /\ files'[F_DMABUF].alive /\ ~oops') =>
             /\ files'[F_DMABUF].f_count = C3_Holders(krefs', fdtable', vma')
             /\ files'[F_DMABUF].f_count >= 1
      ]_vars
C3_Witness ==
    /\ dmabuf.state = "freed"
    /\ nrelease = 1
    /\ last.op = "put"
    /\ ~files[F_DMABUF].alive
    /\ fdtable[1] = NULL
    /\ ~oops

\* C4 as claimed: a successful dma_buf_fd binds a new descriptor to the buffer's
\* file and raises f_count by one; with no free descriptor it fails with the
\* allocator's error, installs nothing and leaves f_count alone.
C4_FdTakesReference ==
    [][last'.op = "fd" =>
          /\ last'.ret >= 0 =>
                /\ fdtable[last'.ret] = NULL
                /\ fdtable'[last'.ret] = dmabuf.file
                /\ dmabuf.file \in Files =>
                      files'[dmabuf.file].f_count = files[dmabuf.file].f_count + 1
          /\ (\A fd \in Fds : fdtable[fd] # NULL) =>
                /\ last'.ret = -EMFILE
                /\ fdtable' = fdtable
                /\ files' = files
      ]_vars

\* C4 amended: a successful dma_buf_fd binds a new descriptor to the buffer's
\* file and leaves f_count as it was, the descriptor taking over the reference
\* of the caller; with no free descriptor it fails with the allocator's error,
\* installs nothing and leaves f_count alone.
C4_FdTakesOverReference ==
    [][last'.op = "fd" =>
          /\ last'.ret >= 0 =>
                /\ fdtable[last'.ret] = NULL
                /\ fdtable'[last'.ret] = dmabuf.file
                /\ \A fd \in Fds \ {last'.ret} : fdtable'[fd] = fdtable[fd]
                /\ files' = files
                /\ krefs' = krefs - 1
          /\ (\A fd \in Fds : fdtable[fd] # NULL) =>
                /\ last'.ret = -EMFILE
                /\ fdtable' = fdtable
                /\ files' = files
                /\ krefs' = krefs
      ]_vars
C4_Witness ==
    /\ last.op = "fd"
    /\ last.ret = 1
    /\ fdtable[1] = F_DMABUF
    /\ files[F_DMABUF].f_count = 1
    /\ krefs = 0

\* C5: dma_buf_get on a descriptor of a dma-buf file returns the buffer and
\* raises f_count by exactly one; on a descriptor that is not open it fails with
\* -EBADF and on a descriptor of another kind of file with -EINVAL, and in both
\* failures every file's f_count is what it was.
C5_GetTakesOneReference ==
    [][last'.op = "get" =>
          LET fd == last'.args[1]
              file == IF fd \in Fds THEN fdtable[fd] ELSE NULL
          IN  /\ file = NULL =>
                    /\ last'.ret = ERR_PTR(-EBADF)
                    /\ files' = files
              /\ (file \in Files /\ files[file].alive
                    /\ files[file].f_op # DMA_BUF_FOPS) =>
                    /\ last'.ret = ERR_PTR(-EINVAL)
                    /\ files' = files
              /\ (file \in Files /\ files[file].alive
                    /\ files[file].f_op = DMA_BUF_FOPS) =>
                    /\ last'.ret = DMABUF
                    /\ files'[file].f_count = files[file].f_count + 1
                    /\ \A g \in Files \ {file} : files'[g] = files[g]
                    /\ dmabuf' = dmabuf
      ]_vars
C5_Witness ==
    /\ last.op = "get"
    /\ last.args = <<0>>
    /\ last.ret = ERR_PTR(-EINVAL)
    /\ files[F_OTHER].f_count = 1
    /\ dmabuf.state = "live"

\* C6: from no cached mapping, every successful dma_buf_vmap returns the same
\* pointer and only the first calls ops->vmap, the counter counting the calls;
\* of the matching dma_buf_vunmap calls only the one that takes the counter to
\* zero calls ops->vunmap, and it clears the cached pointer. No other call
\* touches the cache.
C6_VmapCaching ==
    [][/\ (last'.op = "vmap" /\ ~oops' /\ ~IS_ERR_OR_NULL(last'.ret)) =>
             /\ dmabuf'.vmapping_counter = dmabuf.vmapping_counter + 1
             /\ dmabuf'.vmap_ptr = last'.ret
             /\ dmabuf.vmapping_counter > 0 =>
                   (last'.ret = dmabuf.vmap_ptr /\ called' = <<>>)
             /\ dmabuf.vmapping_counter = 0 => called' = <<"vmap">>
       /\ (last'.op = "vunmap" /\ ~oops') =>
             /\ dmabuf'.vmapping_counter = dmabuf.vmapping_counter - 1
             /\ dmabuf'.vmapping_counter > 0 =>
                   (called' = <<>> /\ dmabuf'.vmap_ptr = dmabuf.vmap_ptr)
             /\ dmabuf'.vmapping_counter = 0 =>
                   /\ dmabuf'.vmap_ptr = NULL
                   /\ "vunmap" \in dmabuf.ops => called' = <<"vunmap">>
       /\ last'.op \notin {"vmap", "vunmap"} =>
             /\ dmabuf'.vmap_ptr = dmabuf.vmap_ptr
             /\ dmabuf'.vmapping_counter = dmabuf.vmapping_counter
       /\ (dmabuf'.vmap_ptr = NULL) <=> (dmabuf'.vmapping_counter = 0)
      ]_vars
C6_Witness ==
    /\ last.op = "vmap"
    /\ dmabuf.vmapping_counter = 2
    /\ last.ret = dmabuf.vmap_ptr
    /\ last.ret \in VAddrs
    /\ called = <<>>
    /\ ~oops

\* C7: when the exporter has no vmap, or its vmap returns NULL or an ERR_PTR,
\* dma_buf_vmap returns NULL and leaves vmap_ptr NULL and vmapping_counter 0.
C7_VmapFailureReturnsNull ==
    [][(/\ last'.op = "vmap"
        /\ dmabuf.vmapping_counter = 0
        /\ \/ "vmap" \notin dmabuf.ops
           \/ called' = <<"vmap">> /\ IS_ERR_OR_NULL(hook_seen'.hook_ret)) =>
          /\ last'.ret = NULL
          /\ dmabuf'.vmap_ptr = NULL
          /\ dmabuf'.vmapping_counter = 0
      ]_vars

\* C8: dma_buf_vunmap with a pointer that is not the cached one, or with no
\* mapping outstanding, is fatal: the counter is not decremented and
\* ops->vunmap is not called.
C8_BadVunmapIsFatal ==
    [][(/\ last'.op = "vunmap"
        /\ \/ last'.args[1] # dmabuf.vmap_ptr
           \/ dmabuf.vmapping_counter = 0) =>
          /\ oops'
          /\ dmabuf' = dmabuf
          /\ called' = <<>>
      ]_vars
C8_Witness ==
    /\ last.op = "vunmap"
    /\ oops
    /\ dmabuf.vmapping_counter = 1
    /\ dmabuf.vmap_ptr # NULL
    /\ last.args[1] \in VAddrs
    /\ last.args[1] # dmabuf.vmap_ptr

\* The page count of a vm area, and the two cases of C9 and C10, in plain
\* integers (an offset whose high half is 16 or more is above any sum below)
C9_Pages(v) == (v.vm_end - v.vm_start) \div PAGE_SIZE
C9_Wraps(pgoff, v) ==
    /\ (HALF - 1) - pgoff[1] < 16
    /\ (((HALF - 1) - pgoff[1]) * HALF) + ((HALF - 1) - pgoff[2]) < C9_Pages(v)
C9_Exceeds(pgoff, v, size) ==
    IF pgoff[1] >= 16
    THEN TRUE
    ELSE (pgoff[1] * HALF) + pgoff[2] + C9_Pages(v) > size \div PAGE_SIZE

\* C9: dma_buf_mmap fails with -EOVERFLOW when pgoff + pages wraps the unsigned
\* long, and with -EINVAL when the sum does not wrap and exceeds
\* size / PAGE_SIZE; in both cases ops->mmap is not called and the vma's file
\* and offset are left as they were.
C9_MmapRangeErrors ==
    [][(last'.op = "mmap" /\ vma.valid) =>
          /\ C9_Wraps(last'.args, vma) =>
                /\ last'.ret = -EOVERFLOW
                /\ called' = <<>>
                /\ vma' = vma
                /\ files' = files
          /\ (~C9_Wraps(last'.args, vma) /\ C9_Exceeds(last'.args, vma, dmabuf.size)) =>
                /\ last'.ret = -EINVAL
                /\ called' = <<>>
                /\ vma' = vma
                /\ files' = files
      ]_vars
C9_Witness ==
    /\ last.op = "mmap"
    /\ last.args = ULONG_MAX
    /\ last.ret = -EOVERFLOW
    /\ vma.valid
    /\ vma.vm_file = F_OTHER
    /\ called = <<>>

\* C10: when the range checks pass, the vma's file is rebound to the buffer's
\* file (the reference of the old file dropped, one taken on the buffer's file)
\* and vm_pgoff is set to pgoff, all of it visible to ops->mmap when it is
\* called; what ops->mmap returns is returned.
C10_MmapRebindsThenDelegates ==
    [][(/\ last'.op = "mmap"
        /\ vma.valid
        /\ ~C9_Wraps(last'.args, vma)
        /\ ~C9_Exceeds(last'.args, vma, dmabuf.size)
        /\ dmabuf.file \in Files
        /\ files[dmabuf.file].alive) =>
          LET old == vma.vm_file
              new == dmabuf.file
          IN  /\ ~oops'
              /\ vma'.vm_file = new
              /\ vma'.vm_pgoff = last'.args
              /\ files'[new].f_count =
                    files[new].f_count + (IF old = new THEN 0 ELSE 1)
              /\ (old # NULL /\ old # new) =>
                    \/ files[old].f_count > 1
                         /\ files'[old].f_count = files[old].f_count - 1
                    \/ files[old].f_count = 1 /\ ~files'[old].alive
              /\ called' = <<"mmap">>
              /\ hook_seen'.vm_file = new
              /\ hook_seen'.vm_pgoff = last'.args
              /\ hook_seen'.f_count = files'[new].f_count
              /\ last'.ret = hook_seen'.hook_ret
      ]_vars
C10_Witness ==
    /\ last.op = "mmap"
    /\ called = <<"mmap">>
    /\ vma.vm_file = F_DMABUF
    /\ vma.vm_pgoff = ULong(1)
    /\ files[F_DMABUF].f_count = 2
    /\ files[F_OTHER].f_count = 1
    /\ last.ret = -ENOMEM

----------------------------------------------------------------------------
\* C11: dma_buf_attach either returns a new record, which it has added to the
\* buffer's attachments with the buffer and the device it was given, or returns
\* an error and leaves the attachments and the records as they were. When
\* ops->attach is called and returns an error, that error is returned, the
\* record is freed and it was never on the list; without ops->attach a call
\* with a buffer, a device and a record to allocate always inserts.
C11_AttachAddsOneOrNothing ==
    [][last'.op = "attach" =>
         /\ IF IS_ERR(last'.ret)
            THEN /\ dmabuf' = dmabuf
                 /\ attachs' = attachs
            ELSE /\ last'.ret \in AttachIds \ dmabuf.attachments
                 /\ dmabuf' = [dmabuf EXCEPT !.attachments = @ \cup {last'.ret}]
                 /\ attachs' = [attachs EXCEPT ![last'.ret] =
                                  [live |-> TRUE, dev |-> last'.args[2],
                                   dmabuf |-> last'.args[1]]]
         /\ ("attach" \in dmabuf.ops /\ called' # <<>> /\ hook_seen'.hook_ret # 0) =>
                /\ called' = <<"attach", "kfree_attach">>
                /\ last'.ret = ERR_PTR(hook_seen'.hook_ret)
                /\ ~hook_seen'.in_set
                /\ hook_seen'.attach \notin dmabuf'.attachments
                /\ ~attachs'[hook_seen'.attach].live
         /\ ("attach" \notin dmabuf.ops /\ last'.args[1] # NULL /\ last'.args[2] # NULL
               /\ last'.ret # ERR_PTR(-ENOMEM)) =>
                /\ ~IS_ERR(last'.ret)
                /\ called' = <<>>
      ]_vars

\* ops->attach refused a second importer: the first record is still the only one
C11_Witness ==
    /\ last.op = "attach"
    /\ called = <<"attach", "kfree_attach">>
    /\ last.ret = ERR_PTR(-ENOMEM)
    /\ dmabuf.attachments = {1}
    /\ ~attachs[2].live

\* C12: dma_buf_detach of one attachment removes that record alone, the other
\* records stay as they were; a record that is on the list is handed to
\* ops->map_dma_buf, whose result is returned; neither dma_buf_attach nor
\* dma_buf_detach changes the count of the buffer's file.
C12_DetachIsolated ==
    [][/\ (last'.op = "detach" /\ last'.args[1] # NULL /\ last'.args[2] # NULL) =>
            /\ dmabuf' = [dmabuf EXCEPT !.attachments = @ \ {last'.args[2]}]
            /\ \A b \in AttachIds \ {last'.args[2]} : attachs'[b] = attachs[b]
            /\ ~attachs'[last'.args[2]].live
       /\ (last'.op = "map_attachment" /\ last'.args[1] \in dmabuf.attachments) =>
            /\ called' = <<"map_dma_buf">>
            /\ hook_seen'.attach = last'.args[1]
            /\ last'.ret = hook_seen'.hook_ret
            /\ dmabuf' = dmabuf
            /\ attachs' = attachs
       /\ last'.op \in {"attach", "detach"} =>
            /\ files' = files
            /\ krefs' = krefs
      ]_vars

\* The first of two attachments was detached, the second has just been mapped
C12_Witness ==
    /\ last.op = "map_attachment"
    /\ last.args = <<2>>
    /\ last.ret = SG_TABLE
    /\ dmabuf.attachments = {2}
    /\ attachs[2].live
    /\ ~attachs[1].live
    /\ files[F_DMABUF].f_count > 0

----------------------------------------------------------------------------
\* C13: a lock request that does not wait (F_SETLK), on a buffer with a
\* reservation: if the buffer is unlocked it returns 0 and the buffer is locked
\* with the type asked for; if the buffer is locked it returns -EAGAIN and the
\* reservation is as it was; the holder's unlock leaves the buffer unlocked, so
\* that the next request succeeds.
C13_NonBlockingLock ==
    [][(/\ last'.op \in {"flock", "flock_block"}
        /\ last'.args[4] = 0
        /\ robj.valid) =>
          /\ last'.op = "flock"
          /\ pc' = pc \/ last'.args[3] = F_UNLCK
          /\ (last'.args[3] \in {F_RDLCK, F_WRLCK} /\ ~robj.locked) =>
                /\ last'.ret = 0
                /\ robj' = [robj EXCEPT !.locked = TRUE,
                                        !.accessed_type = WantedType(last'.args[3])]
          /\ (last'.args[3] \in {F_RDLCK, F_WRLCK} /\ robj.locked) =>
                /\ last'.ret = -EAGAIN
                /\ robj' = robj
          /\ (last'.args[3] = F_UNLCK /\ robj.locked) => ~robj'.locked
      ]_vars

\* A write lock was refused to a second task while the first holds one
C13_Witness ==
    /\ last.op = "flock"
    /\ last.args[3] = F_WRLCK
    /\ last.args[4] = 0
    /\ last.ret = -EAGAIN
    /\ robj.locked
    /\ robj.accessed_type = DMA_BUF_ACCESS_W
    /\ \E h \in holders : h.p # last.args[1]

C15_Waiting(p) == pc[p].st \in {"lock_wait", "lock_woken"}

C15_BlockingLock ==
    /\ [][/\ (/\ last'.op \in {"flock", "flock_block"}
              /\ last'.args[4] = 1
              /\ last'.args[3] \in {F_RDLCK, F_WRLCK}
              /\ robj.valid
              /\ robj.locked) =>
                /\ last'.op = "flock_block"
                /\ pc'[last'.args[1]] = [st |-> "lock_wait",
                                         type |-> WantedType(last'.args[3])]
                /\ last'.args[1] \in robj'.waiters
                /\ robj'.locked
                /\ holders' = holders
          /\ \A p \in Procs :
                (C15_Waiting(p) /\ ~C15_Waiting(p)') =>
                    /\ ~robj.locked
                    /\ robj'.locked
                    /\ robj'.accessed_type = pc[p].type
                    /\ holders' = holders \cup {[p |-> p, type |-> pc[p].type, ctx |-> 0]}
                    /\ last'.ret = 0
         ]_vars
    /\ \A p \in Procs :
          []<>(~robj.locked) =>
              (C15_Waiting(p) ~> (\E h \in holders : h.p = p /\ pc[p].st = "idle"))

\* A task that waited has the lock, another one that waited with it sleeps again
C15_Witness ==
    /\ last.op = "flock_requeue"
    /\ robj.locked
    /\ \E p, q \in Procs :
          /\ p # q
          /\ pc[q].st = "lock_wait"
          /\ q \in robj.waiters
          /\ pc[p].st = "idle"
          /\ holders = {[p |-> p, type |-> robj.accessed_type, ctx |-> 0]}
          /\ q = last.args[1]

\* C16: an unlock of a locked buffer leaves it unlocked, sets the poll edge and
\* wakes every task on the wait queue: the queue is empty, a task that slept
\* in a lock request is runnable and a task that slept in a poll is back in
\* its caller.
C16_UnlockWakesAll ==
    [][(/\ last'.op = "flock"
        /\ last'.args[3] = F_UNLCK
        /\ robj.valid
        /\ robj.locked) =>
          /\ last'.ret = 0
          /\ ~robj'.locked
          /\ robj'.poll_event
          /\ robj'.waiters = {}
          /\ \A q \in Procs :
                pc'[q] = IF q \notin robj.waiters THEN pc[q]
                         ELSE IF pc[q].st = "lock_wait"
                         THEN [pc[q] EXCEPT !.st = "lock_woken"]
                         ELSE Idle
      ]_vars

\* The holder has unlocked while the two other tasks slept in lock requests
C16_Witness ==
    /\ last.op = "flock"
    /\ last.args[3] = F_UNLCK
    /\ ~robj.locked
    /\ robj.poll_event
    /\ robj.waiters = {}
    /\ \A q \in Procs \ {last.args[1]} : pc[q].st = "lock_woken"

\* C17: an unlock of a buffer that is not locked returns an error and leaves
\* the reservation, its poll edge included, as it was.
C17_UnlockOfUnlockedIsError ==
    [][(/\ last'.op = "flock"
        /\ last'.args[3] = F_UNLCK
        /\ robj.valid
        /\ ~robj.locked) =>
          /\ last'.ret < 0
          /\ robj' = robj
      ]_vars

\* C18: dma_buf_poll on a buffer with a reservation: with the poll edge set it
\* clears the edge and returns POLLIN | POLLOUT, locked or not; else on an
\* unlocked buffer it returns POLLERR; else it puts the caller on the wait
\* queue and returns 0. It never changes locked or the access type.
C18_PollOrder ==
    [][(last'.op = "poll" /\ robj.valid) =>
          /\ robj'.locked = robj.locked
          /\ robj'.accessed_type = robj.accessed_type
          /\ holders' = holders
          /\ IF robj.poll_event
             THEN /\ last'.ret = POLLIN + POLLOUT
                  /\ ~robj'.poll_event
                  /\ robj'.waiters = robj.waiters
                  /\ pc' = pc
             ELSE IF ~robj.locked
             THEN /\ last'.ret = POLLERR
                  /\ ~robj'.poll_event
                  /\ robj'.waiters = robj.waiters
                  /\ pc' = pc
             ELSE /\ last'.ret = 0
                  /\ ~robj'.poll_event
                  /\ robj'.waiters = robj.waiters \cup {last'.args[1]}
                  /\ pc'[last'.args[1]].st = "poll_wait"
      ]_vars

\* A poll has reported the edge of an earlier unlock on a buffer locked again
C18_Witness ==
    /\ last.op = "poll"
    /\ last.ret = POLLIN + POLLOUT
    /\ robj.locked
    /\ ~robj.poll_event
    /\ holders # {}

\* C19 as stated: a poll reports ready exactly when the poll edge is set, and
\* clears it; the edge is set by the unlock of a locked buffer and by nothing
\* else; every poll that finds no edge returns 0 with its caller on the wait
\* queue.
C19_LaterPollsBlock ==
    [][/\ (last'.op = "poll" /\ robj.valid) =>
            /\ (last'.ret = POLLIN + POLLOUT) <=> robj.poll_event
            /\ ~robj'.poll_event
            /\ ~robj.poll_event =>
                  /\ last'.ret = 0
                  /\ last'.args[1] \in robj'.waiters
       /\ (robj'.poll_event /\ ~robj.poll_event) =>
            /\ last'.op = "flock"
            /\ last'.args[3] = F_UNLCK
            /\ robj.locked
       /\ (last'.op = "flock" /\ last'.args[3] = F_UNLCK /\ robj.valid /\ robj.locked) =>
            robj'.poll_event
      ]_vars

\* C19, amended: a poll reports ready exactly when the poll edge is set, and
\* clears it; the edge is set by the unlock of a locked buffer and by nothing
\* else, so that one poll reports ready after an unlock and no other does
\* until the next unlock; a poll that finds no edge returns 0 with its caller
\* on the wait queue if the buffer is locked again, and POLLERR if it is not.
C19_OneReadyPerUnlock ==
    [][/\ (last'.op = "poll" /\ robj.valid) =>
            /\ (last'.ret = POLLIN + POLLOUT) <=> robj.poll_event
            /\ ~robj'.poll_event
            /\ (~robj.poll_event /\ robj.locked) =>
                  /\ last'.ret = 0
                  /\ last'.args[1] \in robj'.waiters
            /\ (~robj.poll_event /\ ~robj.locked) =>
                  /\ last'.ret = POLLERR
                  /\ robj'.waiters = robj.waiters
       /\ (robj'.poll_event /\ ~robj.poll_event) =>
            /\ last'.op = "flock"
            /\ last'.args[3] = F_UNLCK
            /\ robj.locked
       /\ (last'.op = "flock" /\ last'.args[3] = F_UNLCK /\ robj.valid /\ robj.locked) =>
            robj'.poll_event
      ]_vars

\* The buffer was unlocked (a task woken by it is still to run), a poll has
\* taken the edge, and a later poll got POLLERR
C19_Witness ==
    /\ last.op = "poll"
    /\ last.ret = POLLERR
    /\ robj.valid
    /\ ~robj.locked
    /\ ~robj.poll_event
    /\ \E q \in Procs : pc[q].st = "lock_woken"

\* C20: DMABUF_IOCTL_GET_FENCE returns -EPERM on a buffer without a
\* reservation and -EBUSY for a ctx that is not 0, and in both cases locks
\* nothing and creates no context; when it returns 0 the buffer was unlocked
\* and is locked with the type asked for, and the ctx written back is a
\* context of the caller that holds this lock.
C20_GetFence ==
    [][last'.op = "DMABUF_IOCTL_GET_FENCE" =>
          /\ ~robj.valid =>
                /\ last'.ret = -EPERM
                /\ robj' = robj
                /\ ctxs' = ctxs
          /\ (robj.valid /\ last'.args[4] # 0 /\ last'.ret # -EFAULT) =>
                /\ last'.ret = -EBUSY
                /\ robj' = robj
                /\ ctxs' = ctxs
          /\ last'.ret = 0 =>
                /\ ~robj.locked
                /\ robj'.locked
                /\ robj'.accessed_type = last'.args[3]
                /\ udf'[last'.args[1]].ctx \in CtxIds
                /\ ~ctxs[udf'[last'.args[1]].ctx].live
                /\ ctxs'[udf'[last'.args[1]].ctx] =
                      [live |-> TRUE, owner |-> last'.args[1], type |-> last'.args[3],
                       bound |-> TRUE, locked |-> TRUE]
      ]_vars

----------------------------------------------------------------------------
\* C21: DMABUF_IOCTL_PUT_FENCE on a buffer with a reservation. With ctx = 0 it
\* returns -EFAULT and changes nothing. With the ctx of a live context it
\* calls dmabuf_sync_unlock, then dmabuf_sync_put, then dmabuf_sync_fini: the
\* buffer is unlocked, the context is gone and 0 is written back as ctx. If
\* the unlock fails its error is returned, nothing else is called, and the
\* context, the reservation and the ctx of the caller are as they were.
C21_PutFence ==
    [][(last'.op = "DMABUF_IOCTL_PUT_FENCE" /\ robj.valid) =>
          /\ last'.args[4] = 0 =>
                /\ last'.ret = -EFAULT
                /\ called' = <<>>
                /\ robj' = robj
                /\ ctxs' = ctxs
                /\ udf' = udf
                /\ holders' = holders
          /\ (last'.args[4] # 0 /\ ctxs[last'.args[4]].live /\ called' # <<>>) =>
                IF called' = <<"dmabuf_sync_unlock">>
                THEN /\ last'.ret # 0
                     /\ last'.ret = -EINVAL
                     /\ robj' = robj
                     /\ ctxs' = ctxs
                     /\ udf' = udf
                     /\ holders' = holders
                ELSE /\ called' = <<"dmabuf_sync_unlock", "dmabuf_sync_put",
                                    "dmabuf_sync_fini">>
                     /\ ~robj'.locked
                     /\ ctxs' = [ctxs EXCEPT ![last'.args[4]] = NoCtx]
                     /\ \A h \in holders' : h.ctx # last'.args[4]
                     /\ \/ /\ last'.ret = 0
                           /\ udf'[last'.args[1]].ctx = 0
                        \/ /\ last'.ret = -EFAULT
                           /\ udf' = udf
      ]_vars

\* The unlock through a fence has failed: the fence is still held
C21_Witness ==
    /\ last.op = "DMABUF_IOCTL_PUT_FENCE"
    /\ last.ret = -EINVAL
    /\ called = <<"dmabuf_sync_unlock">>
    /\ last.args[4] # 0
    /\ ctxs[last.args[4]].locked
    /\ udf[last.args[1]].ctx = last.args[4]
    /\ robj.locked

\* C22: dma_buf_lock does what one call of the lock module does, and nothing
\* else: for F_WRLCK dmabuf_sync_single_lock with DMA_BUF_ACCESS_W, for F_RDLCK
\* the same with DMA_BUF_ACCESS_R, with wait true exactly when FL_SLEEP is set,
\* and it returns what that call returns (or does not return while that call
\* waits); for F_UNLCK dmabuf_sync_single_unlock, and it returns 0.
C22_LockMapping ==
    [][(/\ last'.op \in {"flock", "flock_block"}
        /\ last'.args[3] \in {F_RDLCK, F_WRLCK, F_UNLCK}) =>
          LET p == last'.args[1]
              type == IF last'.args[3] = F_WRLCK
                      THEN DMA_BUF_ACCESS_W ELSE DMA_BUF_ACCESS_R
              R == IF last'.args[3] = F_UNLCK
                   THEN [S |-> dmabuf_sync_single_unlock(St), ret |-> 0,
                         blocked |-> FALSE]
                   ELSE dmabuf_sync_single_lock(St, p, type, last'.args[4] = 1)
          IN  /\ robj' = R.S.robj
              /\ pc' = R.S.pc
              /\ last'.ret = R.ret
              /\ (last'.op = "flock_block") = R.blocked
      ]_vars

\* A read lock request with FL_SLEEP waits, as a reader, for a locked buffer
C22_Witness ==
    /\ last.op = "flock_block"
    /\ last.args[3] = F_RDLCK
    /\ last.args[4] = 1
    /\ pc[last.args[1]] = [st |-> "lock_wait", type |-> DMA_BUF_ACCESS_R]
    /\ robj.locked
    /\ robj.accessed_type = DMA_BUF_ACCESS_W

\* C23: dma_buf_begin_cpu_access on a buffer returns 0 and calls nothing when
\* there is no ops->begin_cpu_access; otherwise it calls the hook once, with
\* the start, the length and the direction it was given, and returns what the
\* hook returns. Either way the buffer (attachments, vmap cache), the
\* attachment records, the files and their counts and the reservation are as
\* they were.
C23_BeginCpuAccess ==
    [][(last'.op = "begin_cpu_access" /\ last'.args[1] # NULL) =>
          /\ IF "begin_cpu_access" \in dmabuf.ops
             THEN /\ called' = <<"begin_cpu_access">>
                  /\ hook_seen'.range = <<last'.args[2], last'.args[3], last'.args[4]>>
                  /\ last'.ret = hook_seen'.hook_ret
             ELSE /\ called' = <<>>
                  /\ last'.ret = 0
          /\ dmabuf' = dmabuf
          /\ attachs' = attachs
          /\ files' = files
          /\ krefs' = krefs
          /\ robj' = robj
      ]_vars

\* The hook has refused, on a buffer with an attachment and a vmap
C23_Witness ==
    /\ last.op = "begin_cpu_access"
    /\ last.ret = -ENOMEM
    /\ called = <<"begin_cpu_access">>
    /\ hook_seen.range = <<1, 2, 1>>
    /\ dmabuf.attachments # {}
    /\ dmabuf.vmapping_counter > 0

\* C24 as stated: dma_buf_detach with a null buffer or a null attachment is
\* fatal (it does not return), changes no attachment list and does not call
\* ops->detach.
C24_NullDetachIsFatal ==
    [][(last'.op = "detach" /\ (last'.args[1] = NULL \/ last'.args[2] = NULL)) =>
          /\ oops'
          /\ dmabuf' = dmabuf
          /\ attachs' = attachs
          /\ called' = <<>>
      ]_vars

\* C24, amended: dma_buf_detach with a null buffer or a null attachment warns
\* and returns to its caller; it changes no attachment list, frees no record
\* and does not call ops->detach.
C24_NullDetachReturns ==
    [][(last'.op = "detach" /\ (last'.args[1] = NULL \/ last'.args[2] = NULL)) =>
          /\ ~oops'
          /\ dmabuf' = dmabuf
          /\ attachs' = attachs
          /\ called' = <<>>
      ]_vars

\* A detach without an attachment has returned; the buffer has its attachment
C24_Witness ==
    /\ last.op = "detach"
    /\ last.args = <<DMABUF, NULL>>
    /\ ~oops
    /\ dmabuf.attachments # {}
    /\ "detach" \in dmabuf.ops

\* C29: the fput that drops the last reference of the buffer's file runs
\* dma_buf_release, which first asserts vmapping_counter == 0: with a kernel
\* mapping outstanding the call is fatal, ops->release is not called and the
\* buffer is not freed; otherwise ops->release, then
\* dmabuf_sync_reservation_fini, then kfree run in that order.
C29_LastPut ==
    /\ dmabuf.state = "live"
    /\ dmabuf.file \in DOMAIN files
    /\ files[dmabuf.file].f_count = 1
    /\ files'[dmabuf.file].f_count = 0

C29_TeardownOrder ==
    [][C29_LastPut =>
          IF dmabuf.vmapping_counter # 0
          THEN /\ oops'
               /\ called' = <<>>
               /\ nrelease' = nrelease
               /\ dmabuf' = dmabuf
               /\ robj' = robj
          ELSE /\ ~oops'
               /\ called' = <<"release", "reservation_fini", "kfree">>
               /\ nrelease' = nrelease + 1
               /\ dmabuf'.state = "freed"
               /\ ~robj'.valid
      ]_vars

\* The last reference was dropped with a kernel mapping outstanding
C29_Witness ==
    /\ oops
    /\ last.op \in {"put", "close"}
    /\ dmabuf.state = "live"
    /\ dmabuf.vmapping_counter > 0
    /\ dmabuf.file \in DOMAIN files
    /\ files[dmabuf.file].f_count = 0
    /\ nrelease = 0

\* C30: dma_buf_release of a buffer that still has attachments detaches
\* nothing: ops->detach is not called, no attachment is unlinked or freed, and
\* every attachment stays allocated with its dmabuf field pointing to the
\* freed buffer.
C30_TeardownKeepsAttachments ==
    [][(/\ dmabuf.state = "live"
        /\ dmabuf'.state = "freed"
        /\ dmabuf.attachments # {}) =>
          /\ attachs' = attachs
          /\ dmabuf'.attachments = dmabuf.attachments
          /\ \A i \in DOMAIN called' :
                 called'[i] \notin {"detach", "list_del", "kfree_attach"}
          /\ \A a \in dmabuf.attachments :
                 attachs'[a].live /\ attachs'[a].dmabuf = DMABUF
      ]_vars

\* A buffer whose exporter has a detach hook was freed with a device attached
C30_Witness ==
    /\ dmabuf.state = "freed"
    /\ "detach" \in dmabuf.ops
    /\ \E a \in AttachIds : attachs[a].live /\ attachs[a].dmabuf = DMABUF
    /\ called = <<"release", "reservation_fini", "kfree">>

\* C25 as stated: whatever the interleaving of dma_buf_vmap and
\* dma_buf_vunmap calls on a buffer, every vunmap undoing an earlier vmap,
\* vmap_ptr is set if and only if vmapping_counter is above 0, the counter is
\* the number of vmaps not yet undone and is never below 0, ops->vunmap runs
\* once for each address cached, and no other call changes the cache between
\* the tests of a vunmap and its decrement.
C25_Matched == \A p \in Tasks : pc[p].maps >= 0
C25_BeforeDec == {"vunmap_test_ptr", "vunmap_test_counter", "vunmap_test_vaddr",
                  "vunmap_lock"}
C25_Tested == {"vunmap_test_counter", "vunmap_test_vaddr", "vunmap_lock", "vunmap_dec"}
C25_Outstanding ==
    [p \in Tasks |-> pc[p].maps + (IF pc[p].st \in C25_BeforeDec THEN 1 ELSE 0)]
RECURSIVE C25_Sum(_, _)
C25_Sum(f, S) ==
    IF S = {}
    THEN 0
    ELSE LET x == CHOOSE x \in S : TRUE
         IN  f[x] + C25_Sum(f, S \ {x})
C25_Cache ==
    /\ dmabuf.vmapping_counter >= 0
    /\ dmabuf.lock = 0 =>
          /\ dmabuf.vmap_ptr # NULL <=> dmabuf.vmapping_counter > 0
          /\ dmabuf.vmapping_counter = C25_Sum(C25_Outstanding, Tasks)
    /\ \A p \in Tasks :
          /\ pc[p].st = "vunmap_hook" => /\ dmabuf.vmap_ptr = pc[p].vaddr
                                         /\ dmabuf.vmapping_counter = 0
          /\ pc[p].st = "vmap_hook" => dmabuf.vmap_ptr = NULL
    /\ ~oops

C25_VunmapAtomic ==
    [][C25_Matched' =>
          /\ C25_Cache'
          /\ \A p \in Tasks :
                (pc[p].st \in C25_Tested /\ pc'[p] = pc[p]) =>
                    /\ dmabuf'.vmap_ptr = dmabuf.vmap_ptr
                    /\ dmabuf'.vmapping_counter = dmabuf.vmapping_counter
      ]_vars

\* C26: concurrent dma_buf_attach and dma_buf_detach calls on a buffer go
\* through dmabuf->lock one at a time: at most one task is inside ops->attach
\* or ops->detach, and whenever the lock is free the list holds exactly the
\* attachments that were returned to callers and not yet unlinked by a detach,
\* each of them once (no list_add is lost).
C26_InHook == {p \in Tasks : pc[p].st \in {"attach_hook", "detach_hook"}}
C26_Held ==
    UNION {pc[p].owned : p \in Tasks} \cup
    {pc[p].attach : p \in {q \in Tasks : pc[q].st = "detach_lock"}}
C26_AttachSerialized ==
    /\ Cardinality(C26_InHook) <= 1
    /\ \A p \in C26_InHook : dmabuf.lock = p
    /\ dmabuf.lock = 0 =>
          /\ dmabuf.attachments = C26_Held
          /\ \A p, q \in Tasks : p # q => pc[p].owned \cap pc[q].owned = {}
          /\ \A a \in dmabuf.attachments : attachs[a].live

\* A task is in list_add under the lock while another, its record allocated,
\* waits for the lock
C26_Witness ==
    \E p, q \in Tasks :
        /\ p # q
        /\ pc[p].st = "list_add_write"
        /\ dmabuf.lock = p
        /\ pc[q].st = "attach_lock"
        /\ pc[q].attach # pc[p].attach

\* C28: dma_buf_detach unlinks the attachment from the list, then calls
\* ops->detach if there is one, both with dmabuf->lock held, then releases the
\* lock and only then frees the attachment: ops->detach never gets an
\* attachment that is still in the list, and the attachment is not freed
\* before ops->detach has returned.
C28_DetachOrder ==
    [][\A p \in Tasks :
          /\ (pc[p].st = "list_del" /\ pc'[p].st # "list_del") =>
                /\ dmabuf.lock = p /\ dmabuf'.lock = p
                /\ pc[p].attach \notin dmabuf'.attachments
                /\ attachs'[pc[p].attach].live
                /\ pc'[p].st = IF "detach" \in dmabuf.ops
                               THEN "detach_hook" ELSE "detach_unlock"
          /\ (pc[p].st = "detach_hook" /\ pc'[p].st # "detach_hook") =>
                /\ dmabuf.lock = p /\ dmabuf'.lock = p
                /\ hook_seen'.attach = pc[p].attach
                /\ ~hook_seen'.in_set
                /\ attachs'[pc[p].attach].live
                /\ pc'[p].st = "detach_unlock"
          /\ (pc[p].st = "detach_unlock" /\ pc'[p].st # "detach_unlock") =>
                /\ dmabuf.lock = p /\ dmabuf'.lock = 0
                /\ attachs'[pc[p].attach].live
                /\ pc'[p].st = "kfree"
          /\ (pc[p].st = "kfree" /\ pc'[p].st # "kfree") =>
                /\ dmabuf.lock # p
                /\ attachs[pc[p].attach].live
                /\ ~attachs'[pc[p].attach].live
                /\ pc'[p].st = "idle"
          /\ (/\ pc[p].st \in {"detach_lock", "list_del", "detach_hook", "detach_unlock"}
              /\ attachs[pc[p].attach].live) => attachs'[pc[p].attach].live
      ]_vars

\* ops->detach has returned, the lock is released and the attachment, out of
\* the list, is not yet freed
C28_Witness ==
    \E p \in Tasks :
        /\ pc[p].st = "kfree"
        /\ "detach" \in dmabuf.ops
        /\ dmabuf.lock # p
        /\ attachs[pc[p].attach].live
        /\ pc[p].attach \notin dmabuf.attachments

\* C27: dmabuf->lock is not held by a task that is inside ops->map_dma_buf or
\* ops->unmap_dma_buf, and while a task stays there, for ever if the exporter
\* does not return, every dma_buf_attach, dma_buf_detach, dma_buf_vmap and
\* dma_buf_vunmap that another task has begun on the buffer comes to its end.
C27_Blocked == pc[Mapper].st \in {"map_hook", "unmap_hook"}
C27_MapRunsUnlocked ==
    /\ [](C27_Blocked => dmabuf.lock # Mapper)
    /\ (C27_Blocked /\ pc[Worker].st # "idle") ~> (pc[Worker].st = "idle" \/ oops)

\* The mapper is inside the exporter's map and the other task has taken the
\* lock
C27_Witness ==
    /\ pc[Mapper].st = "map_hook"
    /\ dmabuf.lock = Worker
    /\ pc[Worker].st \in {"list_add", "list_del", "vmap_test", "vunmap_dec"}

\* C31 as stated: when anon_inode_getfile fails, dma_buf_export returns an
\* error and leaves no buffer allocated; every buffer it returns has a file,
\* so dma_buf_fd, dma_buf_put and dma_buf_mmap never work on an ERR_PTR.
C31_ExportedHasFile ==
    /\ dmabuf.state = "live" => dmabuf.file \in Files
    /\ (last.op = "export" /\ ~IS_ERR(last.ret)) =>
          /\ dmabuf.file \in Files
          /\ files[dmabuf.file].alive
          /\ files[dmabuf.file].private_data = DMABUF

\* C32 as stated: a DMABUF_IOCTL_GET_FENCE that fails in dmabuf_sync_init,
\* dmabuf_sync_get or dmabuf_sync_lock returns a negative error and leaves
\* nothing behind: no context stays allocated or bound, the buffer is not
\* locked for the call, and the ctx of the caller is 0.
C32_Steps == {"sync_init", "sync_get", "sync_lock"}
C32_FailedGetFence ==
    [][(/\ last'.op = "DMABUF_IOCTL_GET_FENCE"
        /\ robj.valid
        /\ last'.args[4] = 0
        /\ last'.args[5] \in C32_Steps) =>
          /\ last'.ret < 0
          /\ ctxs' = ctxs
          /\ robj' = robj
          /\ holders' = holders
          /\ udf'[last'.args[1]].ctx \in {0, udf[last'.args[1]].ctx}
      ]_vars

\* C33: the reservation belongs to the buffer. While a buffer is locked, by a
\* fence or an advisory lock of any task, an F_SETLK read or write request on
\* it fails with -EAGAIN and changes nothing; on an unlocked buffer it
\* succeeds whatever the state of the other buffer, and no call on one buffer
\* changes the reservation of the other. A PUT_FENCE that returns 0 leaves
\* the buffer unlocked, and a GET_FENCE on an unlocked buffer returns 0 and
\* locks it.
C33_Other(b) == IF b = DMABUF THEN DMABUF + 1 ELSE DMABUF
C33_After(b) == IF b = DMABUF THEN robj' ELSE robj2'
C34_Asleep(p) == pc[p].st \in {"lock_wait", "poll_wait"}

C34_Unlocks == robj.locked /\ ~robj'.locked

C34_WokenByUnlock ==
    [][/\ \A p \in Procs :
            /\ (C34_Asleep(p) /\ pc'[p] # pc[p]) =>
                   /\ C34_Unlocks
                   /\ last'.op = "flock"
                   /\ last'.ret = 0
                   /\ pc'[p].st = IF pc[p].st = "lock_wait" THEN "lock_woken" ELSE "idle"
            /\ (pc'[p].st = "lock_woken" /\ pc[p].st # "lock_woken") =>
                   (pc[p].st = "lock_wait" /\ C34_Unlocks)
            /\ (pc'[p].st = "poll_wait") => (~robj'.poll_event /\ robj'.locked)
       /\ (last'.op = "flock_return") =>
              /\ pc[last'.args[1]].st = "lock_woken"
              /\ ~robj.locked
       /\ (/\ last'.op \in {"flock", "flock_block"}
           /\ last'.args[4] = 1
           /\ (last'.args[3] % 4) # F_UNLCK
           /\ robj.valid
           /\ robj.locked) => (last'.op = "flock_block" /\ ~C34_Unlocks)
       /\ (last'.op = "poll" /\ last'.ret = POLLIN + POLLOUT) => robj.poll_event
       /\ (robj'.poll_event /\ ~robj.poll_event) => C34_Unlocks
      ]_vars

\* An unlock has woken a task that slept in a lock request and a task that
\* slept in poll; the first has the lock now
C34_Witness ==
    /\ last.op = "flock_return"
    /\ robj.locked
    /\ robj.poll_event
    /\ \E h \in holders : h.p = last.args[1]
    /\ \E q \in Procs : q # last.args[1] /\ pc[q].st = "idle" /\ robj.polled

\* C35: a DMABUF_IOCTL_GET_INFO that returns 0 has written the size the
\* buffer was exported with and a fence_supported flag that is 1 exactly when
\* the buffer has a reservation object (when the fence commands are not
\* refused with -EPERM), and it changes nothing of the buffer.
C35_GetInfo ==
    [][(last'.op = "get_info" /\ last'.ret = 0) =>
          /\ last'.args[4].size = dmabuf.size
          /\ last'.args[4].fence_supported = (IF robj.valid THEN 1 ELSE 0)
          /\ UNCHANGED <<dmabuf, robj, files, fdtable, krefs, attachs, holders, ctxs, udf>>
      ]_vars

\* The same without the flag
C35_SizeOnly ==
    [][(last'.op = "get_info" /\ last'.ret = 0) =>
          /\ last'.args[4].size = dmabuf.size
          /\ last'.args[4].fence_supported = 0
          /\ UNCHANGED <<dmabuf, robj, files, fdtable, krefs, attachs, holders, ctxs, udf>>
      ]_vars

\* C36: the mmap operation of the buffer's file calls the exporter's mmap hook
\* only for a vm area whose pages [vm_pgoff, vm_pgoff + pages) lie within the
\* pages of the buffer, whatever unsigned value vm_pgoff has, the values for
\* which vm_pgoff + pages wraps around included.
C36_Contained(pgoff, pages, size) ==
    /\ pgoff[1] = 0
    /\ pgoff[2] + pages[2] <= size \div PAGE_SIZE
    /\ pages[1] = 0

C36_Wraps(pgoff, pages) == ULongLess(ULongAdd(pgoff, pages), pgoff)

C36_HookInRange ==
    [][(last'.op = "sys_mmap" /\ called' # <<>>) =>
          /\ called' = <<"mmap">>
          /\ C36_Contained(hook_seen'.vm_pgoff, hook_seen'.range, dmabuf.size)
      ]_vars

\* The same for the areas whose sum does not wrap
C36_HookInRangeUnwrapped ==
    [][(/\ last'.op = "sys_mmap"
        /\ called' # <<>>
        /\ ~C36_Wraps(hook_seen'.vm_pgoff, hook_seen'.range)) =>
          /\ called' = <<"mmap">>
          /\ C36_Contained(hook_seen'.vm_pgoff, hook_seen'.range, dmabuf.size)
      ]_vars

\* C37: a lock request whose type is none of F_RDLCK, F_WRLCK and F_UNLCK
\* returns -EINVAL and neither locks nor unlocks the buffer; the buffer is
\* locked for reading only by a request of type F_RDLCK and unlocked only by a
\* request of type F_UNLCK.
C37_Request == last'.op \in {"flock", "flock_block"} /\ robj.valid

C37_ExactTypes ==
    [][C37_Request =>
          /\ (last'.args[3] \notin {F_RDLCK, F_WRLCK, F_UNLCK}) =>
                 /\ last'.ret = -EINVAL
                 /\ last'.op = "flock"
                 /\ UNCHANGED <<robj, pc, holders>>
          /\ (~robj.locked /\ robj'.locked /\ robj'.accessed_type = DMA_BUF_ACCESS_R) =>
                 last'.args[3] = F_RDLCK
          /\ (robj.locked /\ ~robj'.locked) => last'.args[3] = F_UNLCK
      ]_vars

\* The same for the requests of the three types
C37_KnownTypes ==
    [][(C37_Request /\ last'.args[3] \in {F_RDLCK, F_WRLCK, F_UNLCK}) =>
          /\ (~robj.locked /\ robj'.locked /\ robj'.accessed_type = DMA_BUF_ACCESS_R) =>
                 last'.args[3] = F_RDLCK
          /\ (~robj.locked /\ robj'.locked /\ robj'.accessed_type = DMA_BUF_ACCESS_W) =>
                 last'.args[3] = F_WRLCK
          /\ (robj.locked /\ ~robj'.locked) => last'.args[3] = F_UNLCK
      ]_vars

\* C38: between two vlock_unlock calls at most one vlock_trylock returns 0,
\* whatever the order of the CPUs' loads and stores: at most one CPU holds the
\* lock, and the owner byte names it. A CPU that reads an owner other than
\* VLOCK_OWNER_NONE goes to trylock_fail, does not write the owner byte and
\* returns a nonzero value.
C38_Holders == {c \in CPUs : vlock.cpu[c].holds}

C38_Failing(c) == vlock.cpu[c].pc \in {"trylock_fail", "fail_sev"}

C38_MutualExclusion ==
    [][/\ vlock'.wins <= 1
       /\ Cardinality(C38_Holders') <= 1
       /\ \A c \in C38_Holders' : vlock'.owner = c + VLOCK_VOTING_OFFSET
       /\ \A c \in CPUs :
            /\ (VAt(c, "load_owner") /\ vlock'.cpu[c] # vlock.cpu[c]) =>
                   /\ (vlock.owner # VLOCK_OWNER_NONE) = C38_Failing(c)'
                   /\ vlock'.owner = vlock.owner
            /\ (C38_Failing(c) /\ vlock'.cpu[c] # vlock.cpu[c]) =>
                   /\ vlock'.owner = vlock.owner
                   /\ vlock'.wins = vlock.wins
                   /\ \/ C38_Failing(c)'
                      \/ /\ vlock'.cpu[c].pc = "idle"
                         /\ vlock'.cpu[c].r0 # 0
                         /\ ~vlock'.cpu[c].holds
      ]_vars

\* One CPU has won, one has lost and one has found the lock held; one of them
\* is in its second call
C38_Witness ==
    \E c, d, e \in CPUs :
        /\ vlock.cpu[c].holds
        /\ vlock.calls = MaxCalls
        /\ vlock.wins = 1
        /\ d # c
        /\ vlock.cpu[d].pc = "idle" /\ vlock.cpu[d].r0 # 0
        /\ vlock.event[d]
        /\ e \notin {c, d}
        /\ C38_Failing(e)

\* C39: when every CPU goes on executing, every vlock_trylock returns; a CPU
\* that is not in a call has its voting byte at 0, on the path of the vote
\* and on the path of trylock_fail; and when CPUs call vlock_trylock on a free
\* lock one of them returns 0.
C39_InCall(c) == vlock.cpu[c].pc \notin {"idle", "unlock", "unlock_sev"}

C39_Entering(c) == vlock.cpu[c].pc \in {"voting_begin", "load_owner"}

C39_Progress ==
    /\ \A c \in CPUs : C39_InCall(c) ~> VAt(c, "idle")
    /\ [][\A c \in CPUs : ~C39_InCall(c)' => vlock'.voting[c] = 0]_vars
    /\ (/\ vlock.owner = VLOCK_OWNER_NONE
        /\ vlock.wins = 0
        /\ \E c \in CPUs : C39_Entering(c)) ~> (vlock.wins = 1)

\* Three CPUs called on a free lock, all have returned with their voting
\* bytes at 0, one of them with 0; one of them slept in wfe on the way
C39_Witness ==
    /\ \A c \in CPUs : VAt(c, "idle") /\ vlock.voting[c] = 0
    /\ vlock.calls = Cardinality(CPUs)
    /\ vlock.wins = 1
    /\ \E c \in CPUs : vlock.cpu[c].holds /\ vlock.cpu[c].r0 = 0
    /\ \E c \in CPUs : ~vlock.event[c]

\* C40: after fts_probe and any interleaving of fts_start_device and
\* fts_stop_device calls, whenever no call is inside device_mutex the
\* interrupt is disabled once when touch_stopped is set and enabled when it
\* is not; the disable depth is never above 1 and enable_irq is never called
\* on an enabled line; a stop of a stopped device and a start of a started
\* device change neither touch_stopped nor the interrupt.
C40_Device(f) == <<f.touch_stopped, f.irq_depth, f.unbalanced, f.irq_enabled>>

C40_Balanced ==
    [][/\ fts'.device_mutex = 0 =>
             fts'.irq_depth = (IF fts'.touch_stopped THEN 1 ELSE 0)
       /\ fts'.irq_depth \in {0, 1}
       /\ ~fts'.unbalanced
       /\ \A t \in FtsTasks :
            /\ (FAt(t, "stop_test") /\ fts.touch_stopped /\ fts'.task[t] # fts.task[t]) =>
                   /\ fts'.task[t].st = "stop_out"
                   /\ C40_Device(fts') = C40_Device(fts)
            /\ (FAt(t, "start_test") /\ ~fts.touch_stopped /\ fts'.task[t] # fts.task[t]) =>
                   /\ fts'.task[t].st = "start_out"
                   /\ C40_Device(fts') = C40_Device(fts)
            /\ (fts.task[t].st \in {"stop_out", "start_out"}
                   /\ fts'.task[t] # fts.task[t]) =>
                   /\ fts'.task[t].st = "idle"
                   /\ fts'.device_mutex = 0
                   /\ C40_Device(fts') = C40_Device(fts)
      ]_vars

\* The device that fts_probe stopped has been started by one task; a second
\* task's start found it started and a third task waits for the mutex to stop it
C40_Witness ==
    /\ fts.use_open_close
    /\ ~fts.touch_stopped
    /\ fts.irq_depth = 0
    /\ \E t, u, w \in FtsTasks :
          /\ fts.task[t] = [st |-> "idle", did |-> "started"]
          /\ fts.task[u] = [st |-> "start_out", did |-> "nothing"]
          /\ fts.device_mutex = u
          /\ fts.task[w].st = "stop_lock"
====
